---- MODULE Spec2Model ----
\* Round-feature extraction (src/bad/src/data/parser.py) and the rule-based
\* validator (src/validation_script.py) of the CS2 win-prediction repository.
\*
\* A pandas DataFrame is a sequence of records (one record per row, row order
\* kept, duplicates kept).  None is the empty sequence <<>> and a present
\* optional value x is <<x>>.
EXTENDS Integers, Sequences, FiniteSets, TLC

\* ------------------------------------------------------------------
\* Bounds of the model
\* ------------------------------------------------------------------
\* number of rounds of a demo the Match Driver walks through
MaxRounds == 28
\* the players' scenario repeats with this period over the rounds of a demo
Period == 1
\* the declared winners repeat with this period over the rounds of a demo
WinnerPeriod == 3
\* largest round number handed directly to extract_round_features
MaxRoundNumber == 31
\* largest streak value in a directly supplied previous RoundFeatures
MaxPrevStreak == 1
\* most raw projectile records handed directly to build_grenade_df
MaxRecords == 3
\* most rows of a table handed directly to validate_features
MaxTableRows == 2
\* direct extractions made one after the other
MaxCalls == 3

\* ------------------------------------------------------------------
\* Item catalog (parser.py 21-145)
\* ------------------------------------------------------------------
PISTOLS ==
    {"Glock-18", "USP-S", "Tec-9", "P2000", "P250", "Dual Berettas",
     "CZ75-Auto", "Five-SeveN", "R8 Revolver", "Desert Eagle"}

SMGS == {"MAC-10", "MP9", "UMP-45", "PP-Bizon", "MP5-SD", "MP7", "P90"}

HEAVY == {"Nova", "Sawed-Off", "MAG-7", "XM1014", "M249", "Negev"}

RIFLES ==
    {"Galil AR", "FAMAS", "AK-47", "M4A1-S", "M4A4", "AUG", "SG 553",
     "G3SG1", "SCAR-20"}

SNIPERS == {"SSG 08", "AWP"}

GRENADES ==
    {"High Explosive Grenade", "Flashbang", "Smoke Grenade", "Molotov",
     "Incendiary Grenade", "Decoy Grenade"}

KNIVES ==
    {"Stock Knife", "Bayonet", "Butterfly Knife", "Falchion Knife",
     "Flip Knife", "Gut Knife", "Huntsman Knife", "Karambit", "M9 Bayonet",
     "Shadow Daggers", "Bowie Knife", "Ursus Knife", "Navaja Knife",
     "Stiletto Knife", "Talon Knife", "Classic Knife", "Skeleton Knife",
     "Paracord Knife", "Survival Knife", "Nomad Knife", "Kukri Knife"}

ITEM_PRICES ==
    [w \in KNIVES |-> 0] @@
    ( "Kevlar Vest" :> 650 @@ "Kevlar & Helmet" :> 1000 @@ "Zeus x27" :> 200 @@
      "Defuse Kit" :> 400 @@ "C4 Explosive" :> 0 @@
      "Glock-18" :> 200 @@ "USP-S" :> 200 @@ "P2000" :> 200 @@
      "Dual Berettas" :> 300 @@ "P250" :> 300 @@ "Tec-9" :> 500 @@
      "Five-SeveN" :> 500 @@ "CZ75-Auto" :> 500 @@ "Desert Eagle" :> 700 @@
      "R8 Revolver" :> 600 @@
      "MAC-10" :> 1050 @@ "MP9" :> 1250 @@ "MP7" :> 1500 @@ "MP5-SD" :> 1500 @@
      "UMP-45" :> 1200 @@ "P90" :> 2350 @@ "PP-Bizon" :> 1400 @@
      "Nova" :> 1050 @@ "Sawed-Off" :> 1100 @@ "MAG-7" :> 1300 @@
      "XM1014" :> 2000 @@ "M249" :> 5200 @@ "Negev" :> 1700 @@
      "Galil AR" :> 1800 @@ "FAMAS" :> 1950 @@ "AK-47" :> 2700 @@
      "M4A4" :> 2900 @@ "M4A1-S" :> 2900 @@ "SG 553" :> 3000 @@ "AUG" :> 3300 @@
      "SSG 08" :> 1700 @@ "AWP" :> 4750 @@ "G3SG1" :> 5000 @@ "SCAR-20" :> 5000 @@
      "Molotov" :> 400 @@ "Incendiary Grenade" :> 500 @@ "Decoy Grenade" :> 50 @@
      "Flashbang" :> 200 @@ "High Explosive Grenade" :> 300 @@
      "Smoke Grenade" :> 300 )

ALL_WEAPON_DICT ==
    [w \in RIFLES \cup SMGS \cup PISTOLS \cup SNIPERS \cup HEAVY |-> ITEM_PRICES[w]]

\* ------------------------------------------------------------------
\* DataFrame helpers (pandas operations the code uses)
\* ------------------------------------------------------------------
None == <<>>

Some(x) == <<x>>

RECURSIVE SumSeq(_)
\* Series.sum()
SumSeq(s) == IF s = <<>> THEN 0 ELSE Head(s) + SumSeq(Tail(s))

RECURSIVE Explode(_)
\* Series.explode() of a column of lists: one entry per list element, in order
Explode(col) == IF col = <<>> THEN <<>> ELSE Head(col) \o Explode(Tail(col))

\* Series.isin(values).sum()
IsinSum(series, values) == Cardinality({i \in 1..Len(series) : series[i] \in values})

\* df[df["team_side"] == side]
BySide(df, side) == SelectSeq(df, LAMBDA r : r.team_side = side)

\* set(df["name"])
Names(df) == {df[i].name : i \in 1..Len(df)}

\* ------------------------------------------------------------------
\* Inventory Aggregator (parser.py 153-202)
\* ------------------------------------------------------------------
\* The item argument is a str or an iterable of str in the code
\* (isinstance(x, str) ? [x] : list(x)); here it is always the resulting
\* collection, so a str argument "AWP" is written {"AWP"}.
count_weapon(snapshot_data, weapon) ==
    LET weapons == weapon
        inv == [i \in 1..Len(snapshot_data) |-> snapshot_data[i].inventory]
        inv_series == Explode(inv)
    IN  IsinSum(inv_series, weapons)

RECURSIVE SumWeaponValue(_, _)
\* the loop of count_all_weapon over ALL_WEAPON_DICT.items()
SumWeaponValue(snapshot_data, left) ==
    IF left = {} THEN 0
    ELSE LET weapon == CHOOSE w \in left : TRUE
         IN  count_weapon(snapshot_data, {weapon}) * ALL_WEAPON_DICT[weapon]
             + SumWeaponValue(snapshot_data, left \ {weapon})

RECURSIVE SumPricedValue(_, _)
\* the loop of count_all_weapon taken over every priced item of ITEM_PRICES
SumPricedValue(snapshot_data, left) ==
    IF left = {} THEN 0
    ELSE LET item == CHOOSE w \in left : TRUE
         IN  count_weapon(snapshot_data, {item}) * ITEM_PRICES[item]
             + SumPricedValue(snapshot_data, left \ {item})

\* count_all_weapon over the whole price catalog instead of ALL_WEAPON_DICT
count_all_weapon_AllPrices(snapshot_data) ==
    SumPricedValue(snapshot_data, DOMAIN ITEM_PRICES)

count_all_weapon(snapshot_data) ==
    SumWeaponValue(snapshot_data, DOMAIN ALL_WEAPON_DICT)

\* grenade_df["grenade_type"].isin(items).sum(), 0 for None or an empty table
ThrowCount(grenade_df, items) ==
    IF grenade_df # None /\ grenade_df[1] # <<>>
    THEN LET g == grenade_df[1]
         IN  IsinSum([i \in 1..Len(g) |-> g[i].grenade_type], items)
    ELSE 0

\* count_items without the thrown grenades
count_items_HeldOnly(snapshot_data, grenade_df, item) ==
    LET inv == [i \in 1..Len(snapshot_data) |-> snapshot_data[i].inventory]
    IN  IsinSum(Explode(inv), item)

count_items(snapshot_data, grenade_df, item) ==
    LET items == item
        inv == [i \in 1..Len(snapshot_data) |-> snapshot_data[i].inventory]
        inv_count == IsinSum(Explode(inv), items)
        throw_count == ThrowCount(grenade_df, items)
    IN  inv_count + throw_count

\* ------------------------------------------------------------------
\* Round Feature Extractor (parser.py 260-509)
\* ------------------------------------------------------------------
\* ThrownBy without the thrower filter
ThrownBy_Everyone(grenade_df, names) == grenade_df

\* grenade_df[grenade_df["thrower"].isin(names)] if grenade_df is not None
ThrownBy(grenade_df, names) ==
    IF grenade_df # None
    THEN Some(SelectSeq(grenade_df[1], LAMBDA g : g.thrower \in names))
    ELSE None

\* A float is an IEEE 754 binary64 value: zero, or a 53-bit significand
\* mh * 2^26 + ml (2^26 <= mh < 2^27, 0 <= ml < 2^26) times 2^e.
FloatZero == [mh |-> 0, ml |-> 0, e |-> 0]

\* the significand after rounding up by one unit in the last place
RoundUp(mh, ml, e) ==
    IF ml + 1 < 2^26 THEN [mh |-> mh, ml |-> ml + 1, e |-> e]
    ELSE IF mh + 1 < 2^27 THEN [mh |-> mh + 1, ml |-> 0, e |-> e]
    ELSE [mh |-> 2^26, ml |-> 0, e |-> e + 1]

RECURSIVE Scale(_, _, _)
\* <<N, s>> with N = n * 2^s and d * 2^26 <= N < d * 2^27
Scale(n, d, s) == IF n >= d * 2^26 THEN <<n, s>> ELSE Scale(2 * n, d, s + 1)

\* the quotient n // d held as a float
FloorDiv(n, d) ==
    IF n \div d = 0 THEN FloatZero
    ELSE LET sc == Scale(n \div d, 1, 0)
         IN  [mh |-> sc[1], ml |-> 0, e |-> -(sc[2] + 26)]

\* n / d of an integer 0 <= n < 2^26 by an integer 0 < d < 16: true division
\* in binary64, rounded to nearest, ties to even
TrueDiv(n, d) ==
    IF n = 0 THEN FloatZero
    ELSE LET sc == Scale(n, d, 0)
             mh == sc[1] \div d
             r1 == sc[1] % d
             ml == (r1 * 2^26) \div d
             r2 == (r1 * 2^26) % d
             e == -(sc[2] + 26)
         IN  IF 2 * r2 > d \/ (2 * r2 = d /\ ml % 2 = 1)
             THEN RoundUp(mh, ml, e)
             ELSE [mh |-> mh, ml |-> ml, e |-> e]

\* is_side_switch with the overtime halves counted from round 24
is_side_switch_From24(round_number) ==
    (round_number = 13) \/ (round_number > 24 /\ (round_number - 24) % 3 = 0)

\* is_side_switch without the overtime switches
is_side_switch_HalftimeOnly(round_number) == round_number = 13

is_side_switch(round_number) ==
    (round_number = 13) \/ (round_number > 24 /\ (round_number - 25) % 3 = 0)

is_overtime(round_number) == IF round_number > 24 THEN 1 ELSE 0

\* StreakFeatures with the T side reading the CT side's previous lost streak
StreakFeatures_Crossed(side_switch, previous_round_data) ==
    IF side_switch \/ previous_round_data = None
    THEN [ct_rounds_won_streak |-> 0, ct_rounds_lost_streak |-> 0,
          t_rounds_won_streak |-> 0, t_rounds_lost_streak |-> 0]
    ELSE LET prev == previous_round_data[1]
             ct == IF prev.round_winner = 1
                   THEN [won |-> 1 + prev.ct_rounds_won_streak, lost |-> 0]
                   ELSE [won |-> 0, lost |-> 1 + prev.ct_rounds_lost_streak]
             t  == IF prev.round_winner = 0
                   THEN [won |-> 1 + prev.t_rounds_won_streak, lost |-> 0]
                   ELSE [won |-> 0, lost |-> 1 + prev.ct_rounds_lost_streak]
         IN  [ct_rounds_won_streak |-> ct.won, ct_rounds_lost_streak |-> ct.lost,
              t_rounds_won_streak |-> t.won, t_rounds_lost_streak |-> t.lost]

\* StreakFeatures leaving a side's lost streak as it was when the side won
StreakFeatures_LostKept(side_switch, previous_round_data) ==
    IF side_switch \/ previous_round_data = None
    THEN [ct_rounds_won_streak |-> 0, ct_rounds_lost_streak |-> 0,
          t_rounds_won_streak |-> 0, t_rounds_lost_streak |-> 0]
    ELSE LET prev == previous_round_data[1]
             ct == IF prev.round_winner = 1
                   THEN [won |-> 1 + prev.ct_rounds_won_streak,
                         lost |-> prev.ct_rounds_lost_streak]
                   ELSE [won |-> 0, lost |-> 1 + prev.ct_rounds_lost_streak]
             t  == IF prev.round_winner = 0
                   THEN [won |-> 1 + prev.t_rounds_won_streak,
                         lost |-> prev.t_rounds_lost_streak]
                   ELSE [won |-> 0, lost |-> 1 + prev.t_rounds_lost_streak]
         IN  [ct_rounds_won_streak |-> ct.won, ct_rounds_lost_streak |-> ct.lost,
              t_rounds_won_streak |-> t.won, t_rounds_lost_streak |-> t.lost]

\* parser.py 448-475
StreakFeatures(side_switch, previous_round_data) ==
    IF side_switch \/ previous_round_data = None
    THEN [ct_rounds_won_streak |-> 0, ct_rounds_lost_streak |-> 0,
          t_rounds_won_streak |-> 0, t_rounds_lost_streak |-> 0]
    ELSE LET prev == previous_round_data[1]
             ct == IF prev.round_winner = 1
                   THEN [won |-> 1 + prev.ct_rounds_won_streak, lost |-> 0]
                   ELSE [won |-> 0, lost |-> 1 + prev.ct_rounds_lost_streak]
             t  == IF prev.round_winner = 0
                   THEN [won |-> 1 + prev.t_rounds_won_streak, lost |-> 0]
                   ELSE [won |-> 0, lost |-> 1 + prev.t_rounds_lost_streak]
         IN  [ct_rounds_won_streak |-> ct.won, ct_rounds_lost_streak |-> ct.lost,
              t_rounds_won_streak |-> t.won, t_rounds_lost_streak |-> t.lost]

\* SavedFeatures without the side-switch test of line 484
SavedFeatures_NoSwitchTest(side_switch, previous_last_tick_data) ==
    IF previous_last_tick_data # None
    THEN LET last == previous_last_tick_data[1]
             ct == SelectSeq(last, LAMBDA r : r.team_side = "CT")
             t  == SelectSeq(last, LAMBDA r : r.team_side = "T")
         IN  [ct_survivors_previous |-> Len(ct),
              t_survivors_previous |-> Len(t),
              ct_equipment_saved_value |->
                  SumSeq([i \in 1..Len(ct) |-> ct[i].current_equip_value]),
              t_equipment_saved_value |->
                  SumSeq([i \in 1..Len(t) |-> t[i].current_equip_value])]
    ELSE [ct_survivors_previous |-> 0, t_survivors_previous |-> 0,
          ct_equipment_saved_value |-> 0, t_equipment_saved_value |-> 0]

\* parser.py 484-501
SavedFeatures(side_switch, previous_last_tick_data) ==
    IF previous_last_tick_data # None /\ ~side_switch
    THEN LET last == previous_last_tick_data[1]
             ct == BySide(last, "CT")
             t  == BySide(last, "T")
         IN  [ct_survivors_previous |-> Len(ct),
              t_survivors_previous |-> Len(t),
              ct_equipment_saved_value |->
                  SumSeq([i \in 1..Len(ct) |-> ct[i].current_equip_value]),
              t_equipment_saved_value |->
                  SumSeq([i \in 1..Len(t) |-> t[i].current_equip_value])]
    ELSE [ct_survivors_previous |-> 0, t_survivors_previous |-> 0,
          ct_equipment_saved_value |-> 0, t_equipment_saved_value |-> 0]

\* MoneyTotal without the balance term
MoneyTotal_EquipOnly(start_data) ==
    SumSeq([i \in 1..Len(start_data) |-> start_data[i].current_equip_value])

\* parser.py 319-324
MoneyTotal(start_data) ==
    SumSeq([i \in 1..Len(start_data) |-> start_data[i].balance])
    + SumSeq([i \in 1..Len(start_data) |-> start_data[i].current_equip_value])

\* parser.py 391-411
UtilityValue(snapshot_data, grenade_df, smoke_count, flash_count, he_count) ==
    smoke_count * ITEM_PRICES["Smoke Grenade"]
    + flash_count * ITEM_PRICES["Flashbang"]
    + he_count * ITEM_PRICES["High Explosive Grenade"]
    + count_items(snapshot_data, grenade_df, {"Molotov"}) * ITEM_PRICES["Molotov"]
    + count_items(snapshot_data, grenade_df, {"Incendiary Grenade"})
      * ITEM_PRICES["Incendiary Grenade"]
    + count_items(snapshot_data, grenade_df, {"Decoy Grenade"})
      * ITEM_PRICES["Decoy Grenade"]

extract_round_features(start_tick_data, round_number, snapshot_data, grenade_df, map_name, ct_score, t_score, round_winner, previous_round_data, previous_last_tick_data) ==
    LET ct_start_data == BySide(start_tick_data, "CT")
        t_start_data == BySide(start_tick_data, "T")
        ct_snapshot_data == BySide(snapshot_data, "CT")
        t_snapshot_data == BySide(snapshot_data, "T")
        ct_names == Names(ct_snapshot_data)
        t_names == Names(t_snapshot_data)
        ct_grenade_df == ThrownBy(grenade_df, ct_names)
        t_grenade_df == ThrownBy(grenade_df, t_names)
        ct_cash == SumSeq([i \in 1..Len(ct_snapshot_data) |-> ct_snapshot_data[i].balance])
        t_cash == SumSeq([i \in 1..Len(t_snapshot_data) |-> t_snapshot_data[i].balance])
        ct_armor_count == Len(SelectSeq(ct_snapshot_data, LAMBDA r : r.armor_value > 0))
        t_armor_count == Len(SelectSeq(t_snapshot_data, LAMBDA r : r.armor_value > 0))
        ct_helmet_count == Len(SelectSeq(ct_snapshot_data, LAMBDA r : r.has_helmet))
        t_helmet_count == Len(SelectSeq(t_snapshot_data, LAMBDA r : r.has_helmet))
        ct_defuser_count == Len(SelectSeq(ct_snapshot_data, LAMBDA r : r.has_defuser))
        ct_smoke_count == count_items(ct_snapshot_data, ct_grenade_df, {"Smoke Grenade"})
        t_smoke_count == count_items(t_snapshot_data, t_grenade_df, {"Smoke Grenade"})
        ct_flash_count == count_items(ct_snapshot_data, ct_grenade_df, {"Flashbang"})
        t_flash_count == count_items(t_snapshot_data, t_grenade_df, {"Flashbang"})
        ct_he_count ==
            count_items(ct_snapshot_data, ct_grenade_df, {"High Explosive Grenade"})
        t_he_count ==
            count_items(t_snapshot_data, t_grenade_df, {"High Explosive Grenade"})
        ct_utility_value ==
            UtilityValue(ct_snapshot_data, ct_grenade_df,
                         ct_smoke_count, ct_flash_count, ct_he_count)
        t_utility_value ==
            UtilityValue(t_snapshot_data, t_grenade_df,
                         t_smoke_count, t_flash_count, t_he_count)
        ct_equipment_value ==
            ct_armor_count * ITEM_PRICES["Kevlar Vest"]
            + ct_helmet_count * 350
            + ct_defuser_count * ITEM_PRICES["Defuse Kit"]
            + ct_utility_value
            + count_all_weapon(ct_snapshot_data)
        t_equipment_value ==
            t_armor_count * ITEM_PRICES["Kevlar Vest"]
            + t_helmet_count * 350
            + t_utility_value
            + count_all_weapon(t_snapshot_data)
        side_switch == is_side_switch(round_number)
    IN  [ct_money_total |-> MoneyTotal(ct_start_data),
         t_money_total |-> MoneyTotal(t_start_data),
         ct_cash |-> ct_cash,
         t_cash |-> t_cash,
         ct_cash_avg |-> TrueDiv(ct_cash, 5),
         t_cash_avg |-> TrueDiv(t_cash, 5),
         ct_armor_count |-> ct_armor_count,
         t_armor_count |-> t_armor_count,
         ct_helmet_count |-> ct_helmet_count,
         t_helmet_count |-> t_helmet_count,
         ct_defuser_count |-> ct_defuser_count,
         ct_awp_count |-> count_weapon(ct_snapshot_data, {"AWP"}),
         t_awp_count |-> count_weapon(t_snapshot_data, {"AWP"}),
         ct_ssg_count |-> count_weapon(ct_snapshot_data, {"SSG 08"}),
         t_ssg_count |-> count_weapon(t_snapshot_data, {"SSG 08"}),
         ct_rifle_count |-> count_weapon(ct_snapshot_data, RIFLES),
         t_rifle_count |-> count_weapon(t_snapshot_data, RIFLES),
         ct_smg_count |-> count_weapon(ct_snapshot_data, SMGS),
         t_smg_count |-> count_weapon(t_snapshot_data, SMGS),
         ct_heavy_count |-> count_weapon(ct_snapshot_data, HEAVY),
         t_heavy_count |-> count_weapon(t_snapshot_data, HEAVY),
         ct_ak_count |-> count_weapon(ct_snapshot_data, {"AK-47"}),
         ct_smoke_count |-> ct_smoke_count,
         t_smoke_count |-> t_smoke_count,
         ct_molo_count |->
             count_items(ct_snapshot_data, ct_grenade_df, {"Incendiary Grenade", "Molotov"}),
         t_molo_count |->
             count_items(t_snapshot_data, t_grenade_df, {"Incendiary Grenade", "Molotov"}),
         ct_flash_count |-> ct_flash_count,
         t_flash_count |-> t_flash_count,
         ct_he_count |-> ct_he_count,
         t_he_count |-> t_he_count,
         ct_utility_value |-> ct_utility_value,
         t_utility_value |-> t_utility_value,
         ct_equipment_value |-> ct_equipment_value,
         t_equipment_value |-> t_equipment_value,
         ct_equipment_value_avg |-> TrueDiv(ct_equipment_value, 5),
         t_equipment_value_avg |-> TrueDiv(t_equipment_value, 5),
         round_number |-> round_number,
         ct_score |-> ct_score,
         t_score |-> t_score,
         map_name |-> map_name,
         is_overtime |-> is_overtime(round_number),
         round_winner |-> round_winner]
        @@ StreakFeatures(side_switch, previous_round_data)
        @@ SavedFeatures(side_switch, previous_last_tick_data)

\* ------------------------------------------------------------------
\* Thrown-Utility Extractor (parser.py 205-252)
\* ------------------------------------------------------------------
\* A raw projectile record is [tick, entity_id, pos, thrower, grenade_type];
\* pos is TRUE when X, Y and Z are all present (notna().all(axis=1)).

\* g[(g["tick"] > start_tick) & (g["tick"] <= end_tick)]
WindowFilter(g, start_tick, end_tick) ==
    SelectSeq(g, LAMBDA r : r.tick > start_tick /\ r.tick <= end_tick)

\* g[g[["X", "Y", "Z"]].notna().all(axis=1)]
PositionFilter(g) == SelectSeq(g, LAMBDA r : r.pos)

RECURSIVE SortByTick(_)
\* sort_values("tick"): ascending, rows of equal tick in any order the sort
\* leaves them; the order kept here is the input order (insertion sort)
SortByTick(g) ==
    IF g = <<>> THEN <<>>
    ELSE LET rest == SortByTick(Tail(g))
             h == Head(g)
             k == Cardinality({i \in 1..Len(rest) : rest[i].tick < h.tick})
         IN  SubSeq(rest, 1, k) \o <<h>> \o SubSeq(rest, k + 1, Len(rest))

\* DropDuplicates keeping the last record of an entity (keep="last")
DropDuplicates_KeepLast(g) ==
    LET keep == {i \in 1..Len(g) :
                    \A j \in (i + 1)..Len(g) : g[j].entity_id # g[i].entity_id}
        F[i \in 0..Len(g)] ==
            IF i = 0 THEN <<>>
            ELSE IF i \in keep THEN Append(F[i - 1], g[i]) ELSE F[i - 1]
    IN  F[Len(g)]

\* drop_duplicates(subset=["entity_id"], keep="first")
DropDuplicates(g) ==
    LET keep == {i \in 1..Len(g) : \A j \in 1..(i - 1) : g[j].entity_id # g[i].entity_id}
        F[i \in 0..Len(g)] ==
            IF i = 0 THEN <<>>
            ELSE IF i \in keep THEN Append(F[i - 1], g[i]) ELSE F[i - 1]
    IN  F[Len(g)]

\* str.replace(r"^C", "") then str.replace(r"Projectile$", ""), as a table
\* over the raw labels the model uses; a label without the prefix or the
\* suffix is left as it is
StripClass(raw) ==
    CASE raw = "CSmokeGrenadeProjectile" -> "SmokeGrenade"
      [] raw = "CFlashbangProjectile" -> "Flashbang"
      [] raw = "CHEGrenadeProjectile" -> "HEGrenade"
      [] raw = "CMolotovProjectile" -> "Molotov"
      [] raw = "CMolotovGrenadeProjectile" -> "MolotovGrenade"
      [] raw = "CIncendiaryGrenadeProjectile" -> "IncendiaryGrenade"
      [] raw = "CDecoyProjectile" -> "Decoy"
      [] raw = "CDecoyGrenadeProjectile" -> "DecoyGrenade"
      [] raw = "CSmokeGrenade" -> "SmokeGrenade"
      [] raw = "HEGrenadeProjectile" -> "HEGrenade"
      [] OTHER -> raw

GrenadeMapping ==
    ( "SmokeGrenade" :> "Smoke Grenade" @@ "Flashbang" :> "Flashbang" @@
      "HEGrenade" :> "High Explosive Grenade" @@ "MolotovGrenade" :> "Molotov" @@
      "IncendiaryGrenade" :> "Incendiary Grenade" @@
      "DecoyGrenade" :> "Decoy Grenade" )

\* raw.map(mapping).fillna(raw), raw being the stripped label
CleanType(label) ==
    LET raw == StripClass(label)
    IN  IF raw \in DOMAIN GrenadeMapping THEN GrenadeMapping[raw] ELSE raw

build_grenade_df(grenades, start_tick, end_tick) ==
    LET g1 == WindowFilter(grenades, start_tick, end_tick)
        g2 == PositionFilter(g1)
        g3 == DropDuplicates(SortByTick(g2))
        out == [i \in 1..Len(g3) |->
                   [tick |-> g3[i].tick, thrower |-> g3[i].thrower,
                    grenade_type |-> CleanType(g3[i].grenade_type)]]
    IN  IF g1 = <<>> THEN <<>>
        ELSE IF g2 = <<>> THEN <<>>
        ELSE SortByTick(out)

\* ------------------------------------------------------------------
\* The external decoder (demoparser2 / awpy), as parse_demo consumes it
\* ------------------------------------------------------------------
\* A demo gives every round its script: the declared winner, the players'
\* state along the round and the players alive at its end.  The winners
\* repeat with WinnerPeriod and the scenarios with Period.  Every answer of
\* the decoder is a function of the demo and the tick asked for.

\* ticks from a round's start to its freeze end
FreezeTicks == 5
\* ticks from a round's official end to the next round's start
EndTicks == 3
\* ticks from a round's start to the next round's start
RoundTicks == 300

WinnerLabels == {"CT", "T"}

Scenarios ==
    { [play |-> "pistol", last |-> "ct_saves"],
      [play |-> "buy", last |-> "t_saves"],
      [play |-> "no_start", last |-> "ct_saves"],
      [play |-> "no_snapshot", last |-> "nobody"] }

Scripts == {[winner |-> w, play |-> sc.play, last |-> sc.last] :
               w \in WinnerLabels, sc \in Scenarios}

Demos ==
    {[winners |-> ws, plays |-> ps] :
        ws \in [0..(WinnerPeriod - 1) -> WinnerLabels],
        ps \in [0..(Period - 1) -> Scenarios]}

ScriptOf(dem, round_num) ==
    [winner |-> dem.winners[round_num % WinnerPeriod],
     play |-> dem.plays[round_num % Period].play,
     last |-> dem.plays[round_num % Period].last]

StartTick(round_num) == (round_num - 1) * RoundTicks + 1

FreezeEnd(round_num) == StartTick(round_num) + FreezeTicks

OfficialEnd(round_num) == StartTick(round_num + 1) - EndTicks

\* demawpy.rounds, one row per round_num
RoundTicksRow(dem, round_num) ==
    [start |-> StartTick(round_num),
     freeze_end |-> FreezeEnd(round_num),
     official_end |-> OfficialEnd(round_num),
     winner |-> ScriptOf(dem, round_num).winner]

CTNames == <<"ct1", "ct2", "ct3", "ct4", "ct5">>

TNames == <<"t1", "t2", "t3", "t4", "t5">>

RECURSIVE DecoderScore(_, _)
\* team_rounds_total of the two sides when round_num starts: the rounds won
\* so far, the two teams changing sides at every side switch of the format
DecoderScore(dem, round_num) ==
    IF round_num = 1 THEN [CT |-> 0, T |-> 0]
    ELSE LET before == DecoderScore(dem, round_num - 1)
             w == ScriptOf(dem, round_num - 1).winner
             after == IF w = "CT" THEN [before EXCEPT !.CT = @ + 1]
                      ELSE [before EXCEPT !.T = @ + 1]
         IN  IF round_num = 13 \/ (round_num > 24 /\ (round_num - 25) % 3 = 0)
             THEN [CT |-> after.T, T |-> after.CT]
             ELSE after

\* the players during the buy phase
StartPlayers(dem, round_num) ==
    LET sc == ScriptOf(dem, round_num)
        score == DecoderScore(dem, round_num)
        P(n, team, total) ==
            [name |-> n, team_name |-> team,
             balance |-> IF sc.play = "pistol" THEN 800 ELSE 4100,
             current_equip_value |-> IF sc.play = "pistol" THEN 200 ELSE 1000,
             team_rounds_total |-> total]
    IN  IF sc.play = "no_start" THEN <<>>
        ELSE [i \in 1..5 |-> P(CTNames[i], "CT", score.CT)]
             \o [i \in 1..5 |-> P(TNames[i], "TERRORIST", score.T)]

\* the players after the buy phase
SnapshotPlayers(dem, round_num) ==
    LET sc == ScriptOf(dem, round_num)
        Pistol(n, team) ==
            [name |-> n, team_name |-> team,
             inventory |-> <<"Stock Knife",
                             IF team = "CT" THEN "USP-S" ELSE "Glock-18">>,
             armor_value |-> IF n \in {"ct1", "t1"} THEN 100 ELSE 0,
             has_helmet |-> FALSE, has_defuser |-> FALSE,
             balance |-> IF n \in {"ct1", "t1"} THEN 150 ELSE 800,
             current_equip_value |-> IF n \in {"ct1", "t1"} THEN 850 ELSE 200]
        Buy(n, team) ==
            [name |-> n, team_name |-> team,
             inventory |->
                 CASE n = "ct1" -> <<"Karambit", "USP-S", "AWP", "Smoke Grenade">>
                   [] n = "ct2" -> <<"Stock Knife", "P2000", "M4A1-S", "Flashbang",
                                     "Flashbang">>
                   [] n = "t1" -> <<"Stock Knife", "Glock-18", "AK-47", "Molotov",
                                    "C4 Explosive">>
                   [] n = "t2" -> <<"Stock Knife", "Tec-9", "MAC-10", "Zeus x27">>
                   [] OTHER -> <<"Stock Knife", "Desert Eagle">>,
             armor_value |-> IF n \in {"ct5", "t5"} THEN 0 ELSE 100,
             has_helmet |-> n \in {"ct1", "ct2", "t1"},
             has_defuser |-> n \in {"ct1", "ct3"},
             balance |-> IF n \in {"ct1", "t1"} THEN 50 ELSE 1200,
             current_equip_value |-> IF n \in {"ct1", "t1"} THEN 5900 ELSE 1700]
    IN  IF sc.play = "no_snapshot" THEN <<>>
        ELSE IF sc.play = "buy"
        THEN [i \in 1..5 |-> Buy(CTNames[i], "CT")]
             \o [i \in 1..5 |-> Buy(TNames[i], "TERRORIST")]
        ELSE [i \in 1..5 |-> Pistol(CTNames[i], "CT")]
             \o [i \in 1..5 |-> Pistol(TNames[i], "TERRORIST")]

\* the players just before the official end, dead ones included
LastPlayers(dem, round_num) ==
    LET sc == ScriptOf(dem, round_num)
        alive == CASE sc.last = "ct_saves" -> {"ct1", "ct2"}
                   [] sc.last = "t_saves" -> {"t1", "t3", "ct4"}
                   [] OTHER -> {}
        L(n, team) ==
            [name |-> n, team_name |-> team,
             current_equip_value |->
                 (IF n \in {"ct1", "t1"} THEN 5900
                  ELSE IF n \in alive THEN 1700 ELSE 300) + 50 * round_num,
             is_alive |-> n \in alive]
    IN  IF sc.last = "nobody" THEN <<>>
        ELSE [i \in 1..5 |-> L(CTNames[i], "CT")]
             \o [i \in 1..5 |-> L(TNames[i], "TERRORIST")]

\* demparser.parse_ticks(fields, ticks=[tick]): one record per entity at tick
parse_ticks(dem, tick) ==
    LET round_num == (tick - 1) \div RoundTicks + 1
    IN  IF tick < 1 \/ round_num > MaxRounds THEN <<>>
        ELSE IF tick < FreezeEnd(round_num) THEN StartPlayers(dem, round_num)
        ELSE IF tick < OfficialEnd(round_num) - 1 THEN SnapshotPlayers(dem, round_num)
        ELSE LastPlayers(dem, round_num)

\* the projectile records of one round, by their offset from its freeze end
RoundGrenades(dem, round_num) ==
    LET f == FreezeEnd(round_num)
        R(off, ent, pos, who, type) ==
            [tick |-> f + off, entity_id |-> round_num * 10 + ent, pos |-> pos,
             thrower |-> who, grenade_type |-> type]
    IN  IF ScriptOf(dem, round_num).play # "buy" THEN <<>>
        ELSE << R(2, 1, TRUE, "ct1", "CSmokeGrenadeProjectile"),
                R(0, 2, TRUE, "t2", "CHEGrenadeProjectile"),
                R(1, 1, TRUE, "ct1", "CSmokeGrenadeProjectile"),
                R(1, 3, TRUE, "t1", "CFlashbangProjectile"),
                R(3, 1, TRUE, "ct1", "CSmokeGrenadeProjectile"),
                R(2 * 128, 4, TRUE, "ct2", "CHEGrenadeProjectile"),
                R(9, 5, FALSE, "t3", "CMolotovProjectile"),
                R(12, 5, TRUE, "t3", "CMolotovProjectile"),
                R(2 * 128 + 1, 6, TRUE, "t4", "CDecoyProjectile") >>

RECURSIVE MatchGrenades(_, _)
\* demawpy.grenades: the projectile records of the whole match
MatchGrenades(dem, round_num) ==
    IF round_num = 0 THEN <<>>
    ELSE MatchGrenades(dem, round_num - 1) \o RoundGrenades(dem, round_num)

\* ------------------------------------------------------------------
\* Match Driver (parser.py 517-644)
\* ------------------------------------------------------------------
\* df["team_side"] = df["team_name"].map({"CT": "CT", "TERRORIST": "T"})
TeamSide(team_name) ==
    CASE team_name = "CT" -> "CT"
      [] team_name = "TERRORIST" -> "T"
      [] OTHER -> "NaN"

WithTeamSide(df) ==
    [i \in 1..Len(df) |-> [team_side |-> TeamSide(df[i].team_name)] @@ df[i]]

\* start_data.groupby("team_side")["team_rounds_total"].first().get(side, 0)
ScoreBySide(start_data, side) ==
    LET group == BySide(start_data, side)
    IN  IF group = <<>> THEN 0 ELSE group[1].team_rounds_total

\* str(w).strip().lower(), as a table over the labels the model uses
StripLower(w) ==
    CASE w = "CT" -> "ct"
      [] w = "T" -> "t"
      [] w = " CT " -> "ct"
      [] w = "Ct" -> "ct"
      [] OTHER -> w

\* 1 if w == "ct" else 0
WinnerBit(w) == IF StripLower(w) = "ct" THEN 1 ELSE 0

\* snapshot_tick = freeze_tick + 2 * 128
SnapshotTick(freeze_tick) == freeze_tick + 2 * 128

\* the call at parser.py 586-588
DriverGrenades(grenades, freeze_tick) ==
    build_grenade_df(grenades, freeze_tick + 1, SnapshotTick(freeze_tick))

\* AliveOnly without the is_alive filter
AliveOnly_Everyone(df) == df

\* previous_last_tick_data[previous_last_tick_data["is_alive"] == True]
AliveOnly(df) == SelectSeq(df, LAMBDA r : r.is_alive)

\* ------------------------------------------------------------------
\* Feature Validator (validation_script.py 13-339)
\* ------------------------------------------------------------------
\* A table handed to the validator is [columns, rows]: the names of its
\* columns and its rows in order.  match_file values are naturals standing
\* for file names in their sort order.  A formatted message is the tuple of
\* its parts.

RECURSIVE RunLoop(_, _)
\* a loop that appends each iteration's issues and breaks once it holds 5
RunLoop(iters, acc) ==
    IF iters = <<>> THEN acc
    ELSE LET acc2 == acc \o Head(iters)
         IN  IF Len(acc2) >= 5 THEN acc2 ELSE RunLoop(Tail(iters), acc2)

RECURSIVE SortByRound(_)
\* match_df.sort_values('round_number').reset_index(drop=True)
SortByRound(df) ==
    IF df = <<>> THEN <<>>
    ELSE LET rest == SortByRound(Tail(df))
             h == Head(df)
             k == Cardinality({i \in 1..Len(rest) :
                                  rest[i].round_number < h.round_number})
         IN  SubSeq(rest, 1, k) \o <<h>> \o SubSeq(rest, k + 1, Len(rest))

RECURSIVE GroupsFrom(_, _)
\* df.groupby('match_file'): the groups in ascending key order
GroupsFrom(rows_, keys) ==
    IF keys = {} THEN <<>>
    ELSE LET k == CHOOSE m \in keys : \A n \in keys : m <= n
         IN  <<SelectSeq(rows_, LAMBDA r : r.match_file = k)>>
             \o GroupsFrom(rows_, keys \ {k})

GroupByMatch(rows_) ==
    GroupsFrom(rows_, {rows_[i].match_file : i \in 1..Len(rows_)})

RECURSIVE Flatten(_)
Flatten(ss) == IF ss = <<>> THEN <<>> ELSE Head(ss) \o Flatten(Tail(ss))

\* the pairs (previous row, current row) the per-match loops walk through
Transitions(rows_) ==
    Flatten([g \in 1..Len(GroupByMatch(rows_)) |->
                LET match_df == SortByRound(GroupByMatch(rows_)[g])
                IN  [i \in 1..(Len(match_df) - 1) |->
                        [prev |-> match_df[i], curr |-> match_df[i + 1]]]])

Check(name, passed, issues) == [name |-> name, passed |-> passed, issues |-> issues]

\* validation_script.py 35-54
cash_range(rows_) ==
    LET max_cash_total == 16000 * 5
        ct_cash_issues == SelectSeq(rows_, LAMBDA r : r.ct_cash > max_cash_total)
        t_cash_issues == SelectSeq(rows_, LAMBDA r : r.t_cash > max_cash_total)
        name == "Cash within valid range (0-80k per team)"
    IN  IF Len(ct_cash_issues) > 0 \/ Len(t_cash_issues) > 0
        THEN [check |-> Check(name, FALSE,
                              <<"CT", Len(ct_cash_issues), "T", Len(t_cash_issues)>>),
              errors |-> <<<<"Cash exceeds max",
                             Len(ct_cash_issues) + Len(t_cash_issues)>>>>,
              warnings |-> <<>>]
        ELSE [check |-> Check(name, TRUE, <<>>), errors |-> <<>>, warnings |-> <<>>]

\* validation_script.py 61-76
awp_count(rows_) ==
    LET ct_awp_invalid ==
            SelectSeq(rows_, LAMBDA r : r.ct_awp_count < 0 \/ r.ct_awp_count > 5)
        t_awp_invalid ==
            SelectSeq(rows_, LAMBDA r : r.t_awp_count < 0 \/ r.t_awp_count > 5)
        name == "AWP count valid (0-5)"
    IN  IF Len(ct_awp_invalid) > 0 \/ Len(t_awp_invalid) > 0
        THEN [check |-> Check(name, FALSE,
                              <<"Invalid counts",
                                Len(ct_awp_invalid) + Len(t_awp_invalid)>>),
              errors |-> <<<<"AWP counts outside 0-5 range">>>>,
              warnings |-> <<>>]
        ELSE [check |-> Check(name, TRUE, <<>>), errors |-> <<>>, warnings |-> <<>>]

\* rifle_count recording a failure in both lists
rifle_count_BothLists(rows_) ==
    LET invalid ==
            SelectSeq(rows_, LAMBDA r : r.ct_rifle_count < 0 \/ r.ct_rifle_count > 5
                                        \/ r.t_rifle_count < 0 \/ r.t_rifle_count > 5)
        name == "Rifle count valid (0-5)"
    IN  IF Len(invalid) > 0
        THEN [check |-> Check(name, FALSE, <<"Invalid counts", Len(invalid)>>),
              errors |-> <<<<"Rifle counts outside 0-5 range">>>>,
              warnings |-> <<<<"Rifle counts outside 0-5 range">>>>]
        ELSE [check |-> Check(name, TRUE, <<>>), errors |-> <<>>, warnings |-> <<>>]

\* validation_script.py 79-94
rifle_count(rows_) ==
    LET ct_rifle_invalid ==
            SelectSeq(rows_, LAMBDA r : r.ct_rifle_count < 0 \/ r.ct_rifle_count > 5)
        t_rifle_invalid ==
            SelectSeq(rows_, LAMBDA r : r.t_rifle_count < 0 \/ r.t_rifle_count > 5)
        name == "Rifle count valid (0-5)"
    IN  IF Len(ct_rifle_invalid) > 0 \/ Len(t_rifle_invalid) > 0
        THEN [check |-> Check(name, FALSE,
                              <<"Invalid counts",
                                Len(ct_rifle_invalid) + Len(t_rifle_invalid)>>),
              errors |-> <<>>,
              warnings |-> <<<<"Rifle counts outside 0-5 range">>>>]
        ELSE [check |-> Check(name, TRUE, <<>>), errors |-> <<>>, warnings |-> <<>>]

\* validation_script.py 114-116
ScoreSideSwitch(curr_round) ==
    (curr_round = 13) \/ (curr_round > 24 /\ (curr_round - 25) % 3 = 0)

\* ScoreIssue comparing each side's delta with 0 and 1 instead of their sum
ScoreIssue_PerSide(tr) ==
    LET d_ct == tr.curr.ct_score - tr.prev.ct_score
        d_t == tr.curr.t_score - tr.prev.t_score
    IN  IF ~((tr.curr.round_number = 13)
             \/ (tr.curr.round_number > 24 /\ (tr.curr.round_number - 25) % 3 = 0))
           /\ ~((d_ct = 1 /\ d_t = 0) \/ (d_ct = 0 /\ d_t = 1))
        THEN <<<<tr.curr.match_file, "Round", tr.curr.round_number,
                 "score increased by", d_ct + d_t>>>>
        ELSE <<>>

\* validation_script.py 107-123: the issues of one transition
ScoreIssue(tr) ==
    LET prev_ct == tr.prev.ct_score
        prev_t == tr.prev.t_score
        curr_ct == tr.curr.ct_score
        curr_t == tr.curr.t_score
        curr_round == tr.curr.round_number
        total_increase == (curr_ct - prev_ct) + (curr_t - prev_t)
    IN  IF ~ScoreSideSwitch(curr_round) /\ total_increase # 1
        THEN <<<<tr.curr.match_file, "Round", curr_round, "score increased by",
                 total_increase>>>>
        ELSE <<>>

\* validation_script.py 100-145
score_progression(rows_) ==
    LET tr == Transitions(rows_)
        score_issues == RunLoop([i \in 1..Len(tr) |-> ScoreIssue(tr[i])], <<>>)
        name == "Score increases by 1 each round (per match)"
    IN  IF Len(score_issues) > 0
        THEN [check |-> Check(name, FALSE, score_issues),
              errors |-> <<<<"Score progression issues", Len(score_issues)>>>>,
              warnings |-> <<>>]
        ELSE [check |-> Check(name, TRUE, <<>>), errors |-> <<>>, warnings |-> <<>>]

\* validation_script.py 154-156
StreakSideSwitch(round_num_) ==
    (round_num_ = 13) \/ (round_num_ > 24 /\ (round_num_ - 25) % 3 = 0)

\* validation_script.py 153-167: the issues of one row
StreakIssue(row) ==
    IF StreakSideSwitch(row.round_number)
       /\ (row.ct_rounds_won_streak # 0 \/ row.ct_rounds_lost_streak # 0
           \/ row.t_rounds_won_streak # 0 \/ row.t_rounds_lost_streak # 0)
    THEN <<<<row.match_file, "Round", row.round_number,
             "streaks not reset at side switch">>>>
    ELSE <<>>

\* validation_script.py 151-184
streak_resets(rows_) ==
    LET streak_issues ==
            RunLoop([i \in 1..Len(rows_) |-> StreakIssue(rows_[i])], <<>>)
        name == "Streaks reset at side switches"
    IN  IF Len(streak_issues) > 0
        THEN [check |-> Check(name, FALSE, streak_issues),
              errors |-> <<<<"Streak reset issues", Len(streak_issues)>>>>,
              warnings |-> <<>>]
        ELSE [check |-> Check(name, TRUE, <<>>), errors |-> <<>>, warnings |-> <<>>]

\* validation_script.py 193-195
EquipmentSideSwitch(round_num_) ==
    (round_num_ = 13) \/ (round_num_ > 24 /\ (round_num_ - 25) % 3 = 0)

\* validation_script.py 192-206: the issues of one row
EquipmentIssue(row) ==
    IF EquipmentSideSwitch(row.round_number)
       /\ (row.ct_equipment_saved_value # 0 \/ row.t_equipment_saved_value # 0
           \/ row.ct_survivors_previous # 0 \/ row.t_survivors_previous # 0)
    THEN <<<<row.match_file, "Round", row.round_number,
             "equipment saved not reset at side switch">>>>
    ELSE <<>>

\* validation_script.py 190-225
equipment_resets(rows_) ==
    LET equipment_issues ==
            RunLoop([i \in 1..Len(rows_) |-> EquipmentIssue(rows_[i])], <<>>)
        name == "Equipment saved reset at side switches"
    IN  IF Len(equipment_issues) > 0
        THEN [check |-> Check(name, FALSE, equipment_issues),
              errors |-> <<<<"Equipment reset issues", Len(equipment_issues)>>>>,
              warnings |-> <<>>]
        ELSE [check |-> Check(name, TRUE, <<>>), errors |-> <<>>, warnings |-> <<>>]

\* validation_script.py 243-245
WinnerSideSwitch(curr_round) ==
    (curr_round = 13) \/ (curr_round > 24 /\ (curr_round - 25) % 3 = 0)

\* validation_script.py 237-257: the issues of one transition
WinnerIssue(tr) ==
    LET prev_ct == tr.prev.ct_score
        prev_t == tr.prev.t_score
        curr_ct == tr.curr.ct_score
        curr_t == tr.curr.t_score
        curr_round == tr.curr.round_number
        prev_winner == tr.prev.round_winner
    IN  IF ~WinnerSideSwitch(curr_round)
        THEN (IF curr_ct > prev_ct /\ prev_winner # 1
              THEN <<<<tr.curr.match_file, "Round", curr_round,
                       "CT score increased but winner", prev_winner>>>>
              ELSE <<>>)
             \o
             (IF curr_t > prev_t /\ prev_winner # 0
              THEN <<<<tr.curr.match_file, "Round", curr_round,
                       "T score increased but winner", prev_winner>>>>
              ELSE <<>>)
        ELSE <<>>

\* validation_script.py 231-279
winner_consistency(rows_) ==
    LET tr == Transitions(rows_)
        winner_issues == RunLoop([i \in 1..Len(tr) |-> WinnerIssue(tr[i])], <<>>)
        name == "Round winner matches score increase"
    IN  IF Len(winner_issues) > 0
        THEN [check |-> Check(name, FALSE, winner_issues),
              errors |-> <<>>,
              warnings |-> <<<<"Winner consistency issues", Len(winner_issues)>>>>]
        ELSE [check |-> Check(name, TRUE, <<>>), errors |-> <<>>, warnings |-> <<>>]

\* validation_script.py 288-305: the issues of one round-1 row
PistolIssue(first_round) ==
    (IF first_round.ct_money_total # 5000
     THEN <<<<first_round.match_file, "CT money", first_round.ct_money_total>>>>
     ELSE <<>>)
    \o (IF first_round.t_money_total # 5000
        THEN <<<<first_round.match_file, "T money", first_round.t_money_total>>>>
        ELSE <<>>)
    \o (IF first_round.ct_awp_count > 0 \/ first_round.t_awp_count > 0
        THEN <<<<first_round.match_file, "AWPs present in pistol round">>>>
        ELSE <<>>)
    \o (IF first_round.ct_rifle_count > 0 \/ first_round.t_rifle_count > 0
        THEN <<<<first_round.match_file, "Rifles present in pistol round">>>>
        ELSE <<>>)

\* validation_script.py 285-322
pistol_round(rows_) ==
    LET pistol_rounds == SelectSeq(rows_, LAMBDA r : r.round_number = 1)
        pistol_issues ==
            RunLoop([i \in 1..Len(pistol_rounds) |-> PistolIssue(pistol_rounds[i])],
                    <<>>)
        name == "Pistol round characteristics"
    IN  IF Len(pistol_issues) > 0
        THEN [check |-> Check(name, FALSE, pistol_issues),
              errors |-> <<>>,
              warnings |-> <<<<"Some pistol rounds have unusual features">>>>]
        ELSE [check |-> Check(name, TRUE, <<>>), errors |-> <<>>, warnings |-> <<>>]

\* validation_script.py 28-32
player_count(rows_) ==
    [check |-> Check("Player count consistency", TRUE, <<>>),
     errors |-> <<>>, warnings |-> <<>>]

\* the checks in the order validate_features runs them, by their key
CheckOrder ==
    <<"player_count", "cash_range", "awp_count", "rifle_count",
      "score_progression", "streak_resets", "equipment_resets",
      "winner_consistency", "pistol_round">>

RunCheck(key, rows_) ==
    CASE key = "player_count" -> player_count(rows_)
      [] key = "cash_range" -> cash_range(rows_)
      [] key = "awp_count" -> awp_count(rows_)
      [] key = "rifle_count" -> rifle_count(rows_)
      [] key = "score_progression" -> score_progression(rows_)
      [] key = "streak_resets" -> streak_resets(rows_)
      [] key = "equipment_resets" -> equipment_resets(rows_)
      [] key = "winner_consistency" -> winner_consistency(rows_)
      [] key = "pistol_round" -> pistol_round(rows_)

\* validation_script.py 13-339.  df['match_file'] at line 21 raises KeyError
\* when the table has no such column; nothing is returned then.
validate_features(df) ==
    IF "match_file" \notin df.columns
    THEN [raised |-> "KeyError"]
    ELSE LET outs == [i \in 1..Len(CheckOrder) |-> RunCheck(CheckOrder[i], df.rows)]
             checks == [k \in {CheckOrder[i] : i \in 1..Len(CheckOrder)} |->
                           outs[CHOOSE i \in 1..Len(CheckOrder) : CheckOrder[i] = k].check]
             errors == Flatten([i \in 1..Len(outs) |-> outs[i].errors])
             warnings == Flatten([i \in 1..Len(outs) |-> outs[i].warnings])
             total_checks == Cardinality(DOMAIN checks)
             passed_checks == Cardinality({k \in DOMAIN checks : checks[k].passed})
         IN  [raised |-> "no",
              total_rounds |-> Len(df.rows),
              total_matches |->
                  Cardinality({df.rows[i].match_file : i \in 1..Len(df.rows)}),
              checks |-> checks,
              warnings |-> warnings,
              errors |-> errors,
              summary |-> [total_checks |-> total_checks,
                           passed |-> passed_checks,
                           failed |-> total_checks - passed_checks,
                           warnings |-> Len(warnings),
                           errors |-> Len(errors)]]

\* ------------------------------------------------------------------
\* Inputs of a direct call of extract_round_features
\* ------------------------------------------------------------------
\* round-start players: n per side, each with the given balance and value
StartSquad(n_ct, n_t, balance, equip) ==
    [i \in 1..n_ct |->
        [name |-> CTNames[i], team_side |-> "CT", balance |-> balance,
         current_equip_value |-> equip, team_rounds_total |-> 0]]
    \o [i \in 1..n_t |->
        [name |-> TNames[i], team_side |-> "T", balance |-> balance,
         current_equip_value |-> equip, team_rounds_total |-> 0]]

StartOptions == {StartSquad(5, 5, 800, 0), StartSquad(3, 5, 4100, 1000)}

\* one snapshot player
Snap(n, side, inv, armor, helmet, defuser, balance) ==
    [name |-> n, team_side |-> side, inventory |-> inv, armor_value |-> armor,
     has_helmet |-> helmet, has_defuser |-> defuser, balance |-> balance,
     current_equip_value |-> 0]

SnapshotOptions ==
    { <<>>,
      [i \in 1..5 |-> Snap(CTNames[i], "CT", <<"Stock Knife", "USP-S">>, 0,
                           FALSE, FALSE, 800)]
      \o [i \in 1..5 |-> Snap(TNames[i], "T", <<"Stock Knife", "Glock-18">>, 0,
                              FALSE, FALSE, 800)],
      << Snap("ct1", "CT", <<"Karambit", "AWP", "Smoke Grenade", "Flashbang",
                              "Flashbang">>, 100, TRUE, TRUE, 50),
         Snap("ct2", "CT", <<"M4A1-S", "Smoke Grenade", "Incendiary Grenade",
                              "Decoy Grenade", "Decoy Grenade">>, 87, FALSE, TRUE, 1200),
         Snap("t1", "T", <<"AK-47", "Molotov", "C4 Explosive", "Zeus x27",
                            "High Explosive Grenade">>, 100, TRUE, FALSE, 300),
         Snap("t2", "T", <<"SSG 08", "MAC-10", "Nova", "Smoke Grenade",
                            "Golden Knife">>, 0, FALSE, TRUE, 0),
         Snap("coach", "NaN", <<"AWP", "Smoke Grenade">>, 100, TRUE, TRUE, 16000) >>,
      << Snap("ct1", "CT", <<"USP-S", "Flashbang">>, 0, FALSE, FALSE, 800),
         Snap("ct1", "T", <<"Glock-18">>, 0, FALSE, FALSE, 800),
         Snap("t2", "T", <<"Glock-18">>, 0, FALSE, FALSE, 800) >> }

Thrown(tick, who, type) == [tick |-> tick, thrower |-> who, grenade_type |-> type]

GrenadeOptions ==
    { None,
      Some(<<>>),
      Some(<< Thrown(10, "t2", "Smoke Grenade"), Thrown(11, "t2", "Smoke Grenade"),
              Thrown(12, "ct1", "Flashbang"), Thrown(12, "ghost", "Smoke Grenade"),
              Thrown(13, "coach", "High Explosive Grenade"),
              Thrown(20, "t2", "Molotov"), Thrown(21, "ct2", "Incendiary Grenade"),
              Thrown(30, "t1", "Decoy") >>) }

\* a previous round's RoundFeatures: the fields line 455-475 read
PrevOptions ==
    {None} \cup
    {Some(p) : p \in [round_winner : {0, 1},
                      ct_rounds_won_streak : 0..MaxPrevStreak,
                      ct_rounds_lost_streak : 0..MaxPrevStreak,
                      t_rounds_won_streak : 0..MaxPrevStreak,
                      t_rounds_lost_streak : 0..MaxPrevStreak]}

Survivor(n, side, equip) ==
    [name |-> n, team_side |-> side, current_equip_value |-> equip, is_alive |-> TRUE]

LastOptions ==
    { None,
      Some(<<>>),
      Some(<< Survivor("ct1", "CT", 5900), Survivor("ct2", "CT", 1700),
              Survivor("t3", "T", 300) >>) }

Args(start, r, snap, g, ct_score, t_score, winner, prev, last) ==
    [start_tick_data |-> start, round_number |-> r, snapshot_data |-> snap,
     grenade_df |-> g, map_name |-> "de_mirage", ct_score |-> ct_score,
     t_score |-> t_score, round_winner |-> winner,
     previous_round_data |-> prev, previous_last_tick_data |-> last]

\* every round number with every previous-round context, for one set of players
ContextInputs ==
    {Args(StartSquad(5, 5, 800, 0), r, <<>>, None, 0, 0, 1, prev, last) :
        r \in 1..MaxRoundNumber, prev \in PrevOptions, last \in LastOptions}

\* every set of players and thrown table, for two rounds without context
\* largest balance of a player in the snapshots built for the averages
MaxBalance == 40

\* a CT side of k players, each with balance b and the inventory inv
AverageInputs ==
    {Args(StartSquad(5, 5, 800, 0), 2,
          [i \in 1..k |-> Snap(CTNames[i], "CT", inv, 100, FALSE, FALSE, b)]
          \o [i \in 1..(Len(TNames) - k) |->
                  Snap(TNames[i], "T", <<"Glock-18">>, 0, TRUE, FALSE, 16000 - b)],
          None, 3, 2, 0, None, None) :
        k \in 0..Len(CTNames), b \in 0..MaxBalance,
        inv \in {<<>>, <<"AWP", "Decoy Grenade">>, <<"Zeus x27", "P250">>}}

EconomyInputs ==
    {Args(start, r, snap, g, 3, 2, 0, None, None) :
        start \in StartOptions, r \in {1, 2}, snap \in SnapshotOptions,
        g \in GrenadeOptions}

ExtractInputs == ContextInputs \cup EconomyInputs \cup AverageInputs

\* ------------------------------------------------------------------
\* Inputs of a direct call of build_grenade_df
\* ------------------------------------------------------------------
\* ticks around the window of round 1: its freeze end, the two ticks after
\* it, the snapshot tick and the tick after that
WindowTicks ==
    {FreezeEnd(1), FreezeEnd(1) + 1, FreezeEnd(1) + 2,
     SnapshotTick(FreezeEnd(1)), SnapshotTick(FreezeEnd(1)) + 1}

RawRecords ==
    {[tick |-> t, entity_id |-> 1, pos |-> b, thrower |-> "ct1",
      grenade_type |-> "CSmokeGrenadeProjectile"] : t \in WindowTicks, b \in BOOLEAN}
    \cup
    {[tick |-> t, entity_id |-> 2, pos |-> TRUE, thrower |-> "t1",
      grenade_type |-> "CFlashbangProjectile"] :
        t \in {FreezeEnd(1) + 1, SnapshotTick(FreezeEnd(1))}}

SeqsUpTo(S, n) == UNION {[1..k -> S] : k \in 0..n}

\* raw type labels: the six classes the mapping knows, with and without
\* the class prefix and suffix, and labels it does not know
RawLabels ==
    {"CSmokeGrenadeProjectile", "CFlashbangProjectile", "CHEGrenadeProjectile",
     "CMolotovGrenadeProjectile", "CIncendiaryGrenadeProjectile",
     "CDecoyGrenadeProjectile", "CSmokeGrenade", "HEGrenadeProjectile",
     "CMolotovProjectile", "CDecoyProjectile", "Unknown"}

\* one or two positioned records inside the window, of any raw label
LabelRecords ==
    {<<[tick |-> FreezeEnd(1) + 2, entity_id |-> 1, pos |-> TRUE, thrower |-> "ct1",
        grenade_type |-> l]>> : l \in RawLabels}
    \cup
    {<<[tick |-> FreezeEnd(1) + 3, entity_id |-> 2, pos |-> TRUE, thrower |-> "t1",
        grenade_type |-> l2],
       [tick |-> FreezeEnd(1) + 2, entity_id |-> 1, pos |-> TRUE, thrower |-> "ct1",
        grenade_type |-> l1]>> : l1 \in RawLabels, l2 \in RawLabels}

GrenadeInputs ==
    {[grenades |-> g, start_tick |-> st, end_tick |-> SnapshotTick(FreezeEnd(1))] :
        g \in SeqsUpTo(RawRecords, MaxRecords),
        st \in {FreezeEnd(1), FreezeEnd(1) + 1}}
    \cup
    {[grenades |-> g, start_tick |-> FreezeEnd(1),
      end_tick |-> SnapshotTick(FreezeEnd(1))] : g \in LabelRecords}

\* ------------------------------------------------------------------
\* Inputs of a direct call of validate_features
\* ------------------------------------------------------------------
\* the columns of pd.DataFrame(rows) as parse_demo returns it
FeatureColumns ==
    {"ct_money_total", "t_money_total", "ct_cash", "t_cash", "ct_cash_avg",
     "t_cash_avg", "ct_armor_count", "t_armor_count", "ct_helmet_count",
     "t_helmet_count", "ct_defuser_count", "ct_awp_count", "t_awp_count",
     "ct_ssg_count", "t_ssg_count", "ct_rifle_count", "t_rifle_count",
     "ct_smg_count", "t_smg_count", "ct_heavy_count", "t_heavy_count",
     "ct_ak_count", "ct_smoke_count", "t_smoke_count", "ct_molo_count",
     "t_molo_count", "ct_flash_count", "t_flash_count", "ct_he_count",
     "t_he_count", "ct_utility_value", "t_utility_value", "ct_equipment_value",
     "t_equipment_value", "ct_equipment_value_avg", "t_equipment_value_avg",
     "round_number", "ct_score", "t_score", "ct_rounds_won_streak",
     "ct_rounds_lost_streak", "t_rounds_won_streak", "t_rounds_lost_streak",
     "map_name", "is_overtime", "ct_survivors_previous", "t_survivors_previous",
     "ct_equipment_saved_value", "t_equipment_saved_value", "round_winner"}

\* pd.DataFrame(rows): no column at all when there is no row
DriverTable(rows_) ==
    [columns |-> IF rows_ = <<>> THEN {} ELSE FeatureColumns, rows |-> rows_]

\* the table of one match inside a consolidated dataset: the match
\* identifier column added to every row
Consolidated(rows_, match_file) ==
    [columns |-> FeatureColumns \cup {"match_file"},
     rows |-> [i \in 1..Len(rows_) |-> [match_file |-> match_file] @@ rows_[i]]]

\* a row in which every check passes, but for the fields given
TableRow(match_file, round_number, ct_score, t_score, round_winner) ==
    [match_file |-> match_file, round_number |-> round_number,
     ct_score |-> ct_score, t_score |-> t_score, round_winner |-> round_winner,
     ct_cash |-> 4000, t_cash |-> 4000, ct_awp_count |-> 0, t_awp_count |-> 0,
     ct_rifle_count |-> 0, t_rifle_count |-> 0,
     ct_rounds_won_streak |-> 0, ct_rounds_lost_streak |-> 0,
     t_rounds_won_streak |-> 0, t_rounds_lost_streak |-> 0,
     ct_survivors_previous |-> 0, t_survivors_previous |-> 0,
     ct_equipment_saved_value |-> 0, t_equipment_saved_value |-> 0,
     ct_money_total |-> 5000, t_money_total |-> 5000]

ScoreRows ==
    {TableRow(m, r, sc[1], sc[2], 1) :
        m \in {1, 2}, r \in {1, 2, 13},
        sc \in {<<0, 0>>, <<1, 0>>, <<0, 1>>, <<2, 0>>}}

DefectRows ==
    { [TableRow(1, 2, 0, 0, 0) EXCEPT !.ct_cash = 80001],
      [TableRow(1, 3, 1, 0, 1) EXCEPT !.t_awp_count = 6],
      [TableRow(1, 4, 1, 1, 0) EXCEPT !.ct_rifle_count = 6],
      [TableRow(1, 13, 0, 0, 1) EXCEPT !.t_rounds_lost_streak = 2],
      [TableRow(2, 25, 0, 0, 1) EXCEPT !.ct_survivors_previous = 3],
      [TableRow(2, 1, 0, 0, 0) EXCEPT !.ct_money_total = 4000, !.t_money_total = 4000,
                                      !.ct_awp_count = 1, !.t_rifle_count = 2],
      [TableRow(1, 1, 0, 0, 0) EXCEPT !.ct_money_total = 4000, !.t_money_total = 4000,
                                      !.ct_awp_count = 1, !.t_rifle_count = 2] }

WithoutMatchFile(rows_) ==
    [i \in 1..Len(rows_) |->
        [c \in DOMAIN rows_[i] \ {"match_file"} |-> rows_[i][c]]]

ValidatorInputs ==
    {[columns |-> FeatureColumns \cup {"match_file"}, rows |-> t] :
        t \in SeqsUpTo(ScoreRows, MaxTableRows) \cup SeqsUpTo(DefectRows, MaxTableRows)}
    \cup
    {DriverTable(WithoutMatchFile(t)) :
        t \in SeqsUpTo(DefectRows \cup {TableRow(1, 1, 0, 0, 1)}, MaxTableRows) \ {<<>>}}

VARIABLES
    demo,                     \* the demo file parse_demo reads
    round_num,                \* the next round of round_ticks.index
    rows,                     \* parse_demo's rows
    previous_round_data,      \* None or the last features
    previous_last_tick_data,  \* None or the last round's survivors
    grenade_df,               \* the thrown table of the last round processed
    status,                   \* "running", "returned" (df = rows) or "raised"
    ext_in,                   \* None or the arguments of a direct extraction
    ext_out,                  \* None or the RoundFeatures it returned
    calls,                    \* the direct extractions made so far, in order
    gr_in,                    \* None or the arguments of a direct build_grenade_df
    gr_out,                   \* None or the table it returned
    val_in,                   \* None or the table handed to validate_features
    val_out,                  \* None or what validate_features came to
    files,                    \* output path of each match: None or the chunks in the file
    downloads                 \* the download_demo calls made so far, in order

driverVars == <<demo, round_num, rows, previous_round_data,
                previous_last_tick_data, grenade_df, status>>

extractVars == <<ext_in, ext_out, calls>>

grenadeVars == <<gr_in, gr_out>>

validatorVars == <<val_in, val_out>>

downloadVars == <<files, downloads>>

vars == <<driverVars, extractVars, grenadeVars, validatorVars, downloadVars>>

\* no demo is being parsed
DriverIdle ==
    /\ demo = <<>>
    /\ round_num = 0
    /\ rows = <<>>
    /\ previous_round_data = None
    /\ previous_last_tick_data = None
    /\ grenade_df = <<>>
    /\ status = "idle"

\* no direct extraction is being made
ExtractIdle ==
    /\ ext_in = None
    /\ ext_out = None
    /\ calls = <<>>

\* no direct build_grenade_df is being made
GrenadeIdle ==
    /\ gr_in = None
    /\ gr_out = None

\* no validation is being made
ValidatorIdle ==
    /\ val_in = None
    /\ val_out = None

\* no demo is being downloaded
DownloadIdle ==
    /\ files = <<>>
    /\ downloads = <<>>

Init ==
    /\ demo \in Demos
    /\ round_num = 1
    /\ rows = <<>>
    /\ previous_round_data = None
    /\ previous_last_tick_data = None
    /\ grenade_df = <<>>
    /\ status = "running"
    /\ ExtractIdle
    /\ GrenadeIdle
    /\ ValidatorIdle
    /\ DownloadIdle

\* the frames parse_demo asks the decoder for in round r
RoundFrames(dem, r) ==
    LET rt == RoundTicksRow(dem, r)
    IN  [start |-> parse_ticks(dem, rt.start),
         snapshot |-> parse_ticks(dem, SnapshotTick(rt.freeze_end)),
         last |-> parse_ticks(dem, rt.official_end - 1)]

\* one iteration of the loop over round_ticks.index (parser.py 577-638)
ProcessRound ==
    /\ status = "running"
    /\ round_num <= MaxRounds
    /\ LET rt == RoundTicksRow(demo, round_num)
           frames == RoundFrames(demo, round_num)
           g == DriverGrenades(MatchGrenades(demo, MaxRounds), rt.freeze_end)
           start_data == WithTeamSide(frames.start)
           snapshot_data == WithTeamSide(frames.snapshot)
           ct_score == ScoreBySide(start_data, "CT")
           t_score == ScoreBySide(start_data, "T")
           features ==
               extract_round_features(start_data, round_num, snapshot_data, Some(g),
                                      "de_inferno", ct_score, t_score,
                                      WinnerBit(rt.winner),
                                      previous_round_data, previous_last_tick_data)
       IN  /\ rows' = Append(rows, features)
           /\ previous_round_data' = Some(features)
           /\ previous_last_tick_data' = Some(AliveOnly(WithTeamSide(frames.last)))
           /\ grenade_df' = g
    /\ round_num' = round_num + 1
    /\ UNCHANGED <<demo, status, extractVars, grenadeVars, validatorVars, downloadVars>>

\* A frame without entities may come back without its columns: the column
\* access at parser.py 592, 597 or 633 then raises KeyError, which parse_demo
\* does not catch.
RoundRaises ==
    /\ status = "running"
    /\ round_num <= MaxRounds
    /\ LET frames == RoundFrames(demo, round_num)
       IN  frames.start = <<>> \/ frames.snapshot = <<>> \/ frames.last = <<>>
    /\ status' = "raised"
    /\ UNCHANGED <<demo, round_num, rows, previous_round_data,
                   previous_last_tick_data, grenade_df, extractVars, grenadeVars, validatorVars, downloadVars>>

\* round_ticks.index is exhausted: df = pd.DataFrame(rows) is returned
ReturnTable ==
    /\ status = "running"
    /\ status' = "returned"
    /\ UNCHANGED <<demo, round_num, rows, previous_round_data,
                   previous_last_tick_data, grenade_df, extractVars, grenadeVars, validatorVars, downloadVars>>

Next == ProcessRound \/ RoundRaises \/ ReturnTable

Spec == Init /\ [][Next]_vars

\* ------------------------------------------------------------------
\* A direct call of extract_round_features on bounded inputs
\* ------------------------------------------------------------------
InitExtract ==
    /\ DriverIdle
    /\ GrenadeIdle
    /\ ValidatorIdle
    /\ DownloadIdle
    /\ ext_in \in {Some(a) : a \in ExtractInputs}
    /\ ext_out = None
    /\ calls = <<>>

Extract ==
    /\ ext_in # None
    /\ ext_out = None
    /\ LET a == ext_in[1]
       IN  ext_out' =
               Some(extract_round_features(
                        a.start_tick_data, a.round_number, a.snapshot_data,
                        a.grenade_df, a.map_name, a.ct_score, a.t_score,
                        a.round_winner, a.previous_round_data,
                        a.previous_last_tick_data))
    /\ UNCHANGED <<ext_in, calls, driverVars, grenadeVars, validatorVars, downloadVars>>

NextExtract == Extract

SpecExtract == InitExtract /\ [][NextExtract]_vars

\* ------------------------------------------------------------------
\* Direct calls of extract_round_features one after the other, for rounds
\* of different matches
\* ------------------------------------------------------------------
RepeatInputs ==
    {[Args(StartSquad(5, 5, 800, 0), r, snap, g, 3, 2, w, Some(prev), last)
         EXCEPT !.map_name = IF w = 1 THEN "de_mirage" ELSE "de_nuke"] :
        r \in {2, 13},
        snap \in SnapshotOptions \ {<<>>},
        g \in {Some(<<>>)},
        w \in {0, 1},
        prev \in {[round_winner |-> 1, ct_rounds_won_streak |-> 1,
                   ct_rounds_lost_streak |-> 0, t_rounds_won_streak |-> 0,
                   t_rounds_lost_streak |-> 1]},
        last \in {Some(<< Survivor("ct1", "CT", 5900) >>)}}

InitRepeat ==
    /\ DriverIdle
    /\ ExtractIdle
    /\ GrenadeIdle
    /\ ValidatorIdle
    /\ DownloadIdle

\* ExtractAgain for an extractor that remembers the features it returned
\* last and reads them as the previous round in place of its argument
ExtractAgain_Remembering ==
    /\ Len(calls) < MaxCalls
    /\ \E a \in RepeatInputs :
          LET features ==
                  extract_round_features(
                      a.start_tick_data, a.round_number, a.snapshot_data,
                      a.grenade_df, a.map_name, a.ct_score, a.t_score,
                      a.round_winner,
                      IF ext_out # None THEN ext_out ELSE a.previous_round_data,
                      a.previous_last_tick_data)
          IN  /\ ext_in' = Some(a)
              /\ ext_out' = Some(features)
              /\ calls' = Append(calls, [args |-> a, result |-> features])
    /\ UNCHANGED <<driverVars, grenadeVars, validatorVars, downloadVars>>

ExtractAgain ==
    /\ Len(calls) < MaxCalls
    /\ \E a \in RepeatInputs :
          LET features ==
                  extract_round_features(
                      a.start_tick_data, a.round_number, a.snapshot_data,
                      a.grenade_df, a.map_name, a.ct_score, a.t_score,
                      a.round_winner, a.previous_round_data,
                      a.previous_last_tick_data)
          IN  /\ ext_in' = Some(a)
              /\ ext_out' = Some(features)
              /\ calls' = Append(calls, [args |-> a, result |-> features])
    /\ UNCHANGED <<driverVars, grenadeVars, validatorVars, downloadVars>>

NextRepeat == ExtractAgain

SpecRepeat == InitRepeat /\ [][NextRepeat]_vars

\* ------------------------------------------------------------------
\* A direct call of build_grenade_df on bounded inputs
\* ------------------------------------------------------------------
InitGrenade ==
    /\ DriverIdle
    /\ ExtractIdle
    /\ ValidatorIdle
    /\ DownloadIdle
    /\ gr_in \in {Some(a) : a \in GrenadeInputs}
    /\ gr_out = None

BuildGrenades ==
    /\ gr_in # None
    /\ gr_out = None
    /\ LET a == gr_in[1]
       IN  gr_out' = Some(build_grenade_df(a.grenades, a.start_tick, a.end_tick))
    /\ UNCHANGED <<gr_in, driverVars, extractVars, validatorVars, downloadVars>>

NextGrenade == BuildGrenades

SpecGrenade == InitGrenade /\ [][NextGrenade]_vars

\* ------------------------------------------------------------------
\* A run of validate_features on bounded tables
\* ------------------------------------------------------------------
InitValidate ==
    /\ DriverIdle
    /\ ExtractIdle
    /\ GrenadeIdle
    /\ DownloadIdle
    /\ val_in \in {Some(t) : t \in ValidatorInputs}
    /\ val_out = None

Validate ==
    /\ val_in # None
    /\ val_out = None
    /\ val_out' = Some(validate_features(val_in[1]))
    /\ UNCHANGED <<val_in, driverVars, extractVars, grenadeVars, downloadVars>>

NextValidate == Validate

SpecValidate == InitValidate /\ [][NextValidate]_vars

\* ------------------------------------------------------------------
\* HLTVDemoDownloader: download_demo calls on one output directory, over
\* one run of the script or several
\* ------------------------------------------------------------------
MaxDownloads == 3

\* the chunks of a complete response body
BodyChunks == 2

Matches == {"m1", "m2"}

\* the part of get_match_info that download_demo reads: the file name always
\* ends in ".dem", whatever the demo link ends in
get_match_info(match_id) ==
    [match_id |-> match_id,
     filename |-> [stem |-> match_id, suffix |-> ".dem"]]

OutputPaths == {get_match_info(m).filename : m \in Matches}

\* What the server, the connection and the operator do to one request:
\*   get_raises      session.get raises an Exception (no connection)
\*   get_interrupt   KeyboardInterrupt while session.get waits
\*   refused         a response whose status_code is not 200
\*   body_raises     iter_content raises an Exception after `delivered` chunks
\*   body_interrupt  KeyboardInterrupt after `delivered` chunks were written
\*   unpack_raises   the whole body arrives, bz2 cannot read it
\*   complete        the whole body arrives
Transfers ==
    {[kind |-> k, delivered |-> 0] : k \in {"get_raises", "get_interrupt", "refused"}}
    \cup {[kind |-> "body_raises", delivered |-> n] : n \in 0..(BodyChunks - 1)}
    \cup {[kind |-> "body_interrupt", delivered |-> n] : n \in 0..BodyChunks}
    \cup {[kind |-> k, delivered |-> BodyChunks] : k \in {"unpack_raises", "complete"}}

\* except Exception: the file at output_path is removed when it exists, and
\* the call returns False
ExceptHandler(fs, output_path) ==
    [fs |-> [fs EXCEPT ![output_path] = None], ret |-> "False", request |-> TRUE]

\* download_demo(match_info) on the directory fs when the request goes as
\* t says: the directory it leaves, what it returns ("raised" when an
\* exception leaves the call) and whether it issued the request.
\* KeyboardInterrupt is a BaseException and not an Exception: the handler
\* does not run for it.
download_demo(fs, match_info, t) ==
    LET output_path == match_info.filename
        opened == [fs EXCEPT ![output_path] = Some(0)]
        written == [fs EXCEPT ![output_path] = Some(t.delivered)]
    IN  IF fs[output_path] # None
        THEN [fs |-> fs, ret |-> "True", request |-> FALSE]
        ELSE IF t.kind = "get_raises" THEN ExceptHandler(fs, output_path)
        ELSE IF t.kind = "get_interrupt"
        THEN [fs |-> fs, ret |-> "raised", request |-> TRUE]
        ELSE IF t.kind = "refused"
        THEN [fs |-> fs, ret |-> "False", request |-> TRUE]
        ELSE IF t.kind = "body_raises" THEN ExceptHandler(written, output_path)
        ELSE IF t.kind = "body_interrupt"
        THEN [fs |-> written, ret |-> "raised", request |-> TRUE]
        ELSE IF output_path.suffix = ".bz2"
        THEN IF t.kind = "unpack_raises"
             THEN ExceptHandler(written, output_path)
             ELSE [fs |-> [written EXCEPT ![output_path] = None],
                   ret |-> "True", request |-> TRUE]
        ELSE [fs |-> written, ret |-> "True", request |-> TRUE]

InitDownload ==
    /\ DriverIdle
    /\ ExtractIdle
    /\ GrenadeIdle
    /\ ValidatorIdle
    /\ files = [p \in OutputPaths |-> None]
    /\ downloads = <<>>

\* one pass of download_all's loop over the match ids: get_match_info, then
\* download_demo. A call that raised ends the run of the script; the next
\* call is then made by a later run over the same directory.
DownloadDemo ==
    /\ Len(downloads) < MaxDownloads
    /\ \E m \in Matches, t \in Transfers :
          LET match_info == get_match_info(m)
              r == download_demo(files, match_info, t)
          IN  /\ files' = r.fs
              /\ downloads' = Append(downloads,
                                     [match_id |-> m,
                                      before |-> files[match_info.filename],
                                      request |-> r.request,
                                      ret |-> r.ret,
                                      after |-> r.fs[match_info.filename]])
    /\ UNCHANGED <<driverVars, extractVars, grenadeVars, validatorVars>>

NextDownload == DownloadDemo

SpecDownload == InitDownload /\ [][NextDownload]_vars

\* ------------------------------------------------------------------
\* Properties
\* ------------------------------------------------------------------
\* the side-switch rounds as the format names them: round 13, then round 25
\* and every third round after it
SwitchRound(r) == r = 13 \/ \E k \in 0..r : r = 25 + 3 * k

StreaksZero(f) ==
    /\ f.ct_rounds_won_streak = 0
    /\ f.ct_rounds_lost_streak = 0
    /\ f.t_rounds_won_streak = 0
    /\ f.t_rounds_lost_streak = 0

SavedZero(f) ==
    /\ f.ct_survivors_previous = 0
    /\ f.t_survivors_previous = 0
    /\ f.ct_equipment_saved_value = 0
    /\ f.t_equipment_saved_value = 0

C2_PistolRound ==
    (/\ ext_out # None
     /\ ext_in[1].round_number = 1
     /\ ext_in[1].previous_round_data = None
     /\ ext_in[1].previous_last_tick_data = None
     /\ ext_in[1].start_tick_data = StartSquad(5, 5, 800, 0)
     /\ ext_in[1].grenade_df \in {None, Some(<<>>)})
    => /\ ext_out[1].ct_money_total = 4000
       /\ ext_out[1].t_money_total = 4000
       /\ StreaksZero(ext_out[1])
       /\ SavedZero(ext_out[1])
       /\ ~is_side_switch(1)
       /\ ext_out[1].is_overtime = 0

\* C2 witness: such a round 1 was extracted, with pistol-only inventories
C2_Witness ==
    /\ ext_out # None
    /\ ext_in[1].round_number = 1
    /\ ext_in[1].previous_round_data = None
    /\ ext_in[1].previous_last_tick_data = None
    /\ ext_in[1].start_tick_data = StartSquad(5, 5, 800, 0)
    /\ ext_in[1].grenade_df = Some(<<>>)
    /\ Len(ext_in[1].snapshot_data) = 10
    /\ ext_out[1].ct_money_total = 4000

\* C3: for every round number r >= 1 the side-switch test is true exactly
\* for r = 13 and r > 24 with (r - 25) mod 3 = 0, is_overtime is 1 exactly
\* for r > 24, and the validator's four side-switch tests agree with the
\* extractor's.
C3_SideSwitchPredicate ==
    ext_out # None =>
        LET r == ext_in[1].round_number
        IN  /\ is_side_switch(r) <=> SwitchRound(r)
            /\ ext_in[1].previous_round_data # None =>
                  (StreaksZero(ext_out[1]) <=> SwitchRound(r))
            /\ ext_out[1].is_overtime = (IF r > 24 THEN 1 ELSE 0)
            /\ ScoreSideSwitch(r) <=> is_side_switch(r)
            /\ StreakSideSwitch(r) <=> is_side_switch(r)
            /\ EquipmentSideSwitch(r) <=> is_side_switch(r)
            /\ WinnerSideSwitch(r) <=> is_side_switch(r)
            /\ r = 28 => is_side_switch(r) /\ ext_out[1].is_overtime = 1
            /\ r \in {24, 26} => ~is_side_switch(r)

\* C3 witness: round 28 was extracted with a previous round, as a side
\* switch in overtime
C3_Witness ==
    /\ ext_out # None
    /\ ext_in[1].round_number = 28
    /\ ext_in[1].previous_round_data # None
    /\ StreaksZero(ext_out[1])
    /\ ext_out[1].is_overtime = 1

\* C4: in a round that is no side switch and has a previous round, a
\* previous CT win gives ct won = previous ct won + 1, ct lost = 0, t won = 0,
\* t lost = previous t lost + 1, and a previous T win the same with the
\* sides exchanged.
C4_StreakUpdate ==
    (/\ ext_out # None
     /\ ~SwitchRound(ext_in[1].round_number)
     /\ ext_in[1].previous_round_data # None)
    => LET prev == ext_in[1].previous_round_data[1]
           f == ext_out[1]
       IN  /\ prev.round_winner = 1 =>
                 /\ f.ct_rounds_won_streak = prev.ct_rounds_won_streak + 1
                 /\ f.ct_rounds_lost_streak = 0
                 /\ f.t_rounds_won_streak = 0
                 /\ f.t_rounds_lost_streak = prev.t_rounds_lost_streak + 1
           /\ prev.round_winner = 0 =>
                 /\ f.t_rounds_won_streak = prev.t_rounds_won_streak + 1
                 /\ f.t_rounds_lost_streak = 0
                 /\ f.ct_rounds_won_streak = 0
                 /\ f.ct_rounds_lost_streak = prev.ct_rounds_lost_streak + 1

\* C4 witness: a round after a CT win that continued a CT streak while the
\* two sides' previous counters differed
C4_Witness ==
    /\ ext_out # None
    /\ ~SwitchRound(ext_in[1].round_number)
    /\ ext_in[1].previous_round_data # None
    /\ ext_in[1].previous_round_data[1].round_winner = 1
    /\ ext_in[1].previous_round_data[1].ct_rounds_won_streak = 1
    /\ ext_in[1].previous_round_data[1].t_rounds_lost_streak = 0
    /\ ext_out[1].ct_rounds_won_streak = 2
    /\ ext_out[1].t_rounds_lost_streak = 1

\* the rows of a thrown table whose grenade type is in X; none for no table
RowsOfType(g, X) ==
    IF g = None THEN 0
    ELSE Cardinality({i \in 1..Len(g[1]) : g[1][i].grenade_type \in X})

\* the occurrences of the items X in the inventories of a team
HeldOfType(team, X) ==
    Cardinality({<<i, j>> \in (1..Len(team)) \X (1..5) :
                    j <= Len(team[i].inventory) /\ team[i].inventory[j] \in X})

ItemQueries ==
    {{g} : g \in GRENADES} \cup {{"Incendiary Grenade", "Molotov"}, GRENADES, RIFLES}

\* C5: count_items(team, grenades, X) is count_weapon(team, X), the
\* occurrences of X in the flattened inventories, plus the rows of the thrown
\* table whose type is in X, and 0 of those for an absent or empty table; 2
\* thrown smokes and 1 held smoke give 3.
C5_CountItems ==
    ext_out # None =>
        LET a == ext_in[1]
            ct == BySide(a.snapshot_data, "CT")
            t == BySide(a.snapshot_data, "T")
            ctg == ThrownBy(a.grenade_df, Names(ct))
            tg == ThrownBy(a.grenade_df, Names(t))
        IN  /\ \A X \in ItemQueries :
                  /\ count_weapon(ct, X) = HeldOfType(ct, X)
                  /\ count_items(ct, ctg, X) = count_weapon(ct, X) + RowsOfType(ctg, X)
                  /\ count_items(t, tg, X) = count_weapon(t, X) + RowsOfType(tg, X)
                  /\ count_items(a.snapshot_data, a.grenade_df, X)
                        = count_weapon(a.snapshot_data, X) + RowsOfType(a.grenade_df, X)
                  /\ count_items(t, None, X) = count_weapon(t, X)
                  /\ count_items(t, Some(<<>>), X) = count_weapon(t, X)
            /\ ext_out[1].ct_smoke_count
                  = HeldOfType(ct, {"Smoke Grenade"}) + RowsOfType(ctg, {"Smoke Grenade"})
            /\ ext_out[1].t_smoke_count
                  = HeldOfType(t, {"Smoke Grenade"}) + RowsOfType(tg, {"Smoke Grenade"})
            /\ ext_out[1].t_molo_count
                  = HeldOfType(t, {"Incendiary Grenade", "Molotov"})
                    + RowsOfType(tg, {"Incendiary Grenade", "Molotov"})

\* C5 witness: a team that threw 2 smokes and holds 1 was counted with 3
C5_Witness ==
    /\ ext_out # None
    /\ LET t == BySide(ext_in[1].snapshot_data, "T")
           tg == ThrownBy(ext_in[1].grenade_df, Names(t))
       IN  /\ HeldOfType(t, {"Smoke Grenade"}) = 1
           /\ RowsOfType(tg, {"Smoke Grenade"}) = 2
    /\ ext_out[1].t_smoke_count = 3

\* the entities of a projectile table that have a record with a position at
\* a tick t with lo < t <= hi
ThrownEntities(g, lo, hi) ==
    {g[i].entity_id : i \in {j \in 1..Len(g) : g[j].pos /\ lo < g[j].tick /\ g[j].tick <= hi}}

\* C6: for every round the Match Driver processes, the thrown table handed
\* to the extractor covers exactly (freeze_end, snapshot_tick], snapshot_tick
\* being freeze_end plus 2 seconds of ticks: every row's tick lies in it and
\* every projectile entity with a positioned record in it, one at
\* freeze_end + 1 included, contributes a row.
C6_GrenadeWindow ==
    Len(rows) >= 1 =>
        LET freeze_end == FreezeEnd(Len(rows))
            snapshot_tick == freeze_end + 2 * 128
            thrown == ThrownEntities(MatchGrenades(demo, MaxRounds), freeze_end,
                                     snapshot_tick)
        IN  /\ \A i \in 1..Len(grenade_df) :
                  freeze_end < grenade_df[i].tick /\ grenade_df[i].tick <= snapshot_tick
            /\ Len(grenade_df) = Cardinality(thrown)

\* the smallest tick of entity e among the positioned records of g in (lo, hi]
FirstValidTick(g, e, lo, hi) ==
    LET ticks == {g[i].tick : i \in {j \in 1..Len(g) :
                     g[j].entity_id = e /\ g[j].pos /\ lo < g[j].tick /\ g[j].tick <= hi}}
    IN  CHOOSE t \in ticks : \A u \in ticks : t <= u

ThrowerOf(g, e) == g[CHOOSE i \in 1..Len(g) : g[i].entity_id = e].thrower

\* C7: build_grenade_df returns one row per projectile entity that has a
\* positioned record inside the window (lower bound exclusive, upper bound
\* inclusive) and none for the other entities; the row's tick is the entity's
\* smallest in-window tick with a position; rows are in ascending tick order;
\* the result is an empty table when nothing qualifies.
C7_OneRowPerEntity ==
    gr_out # None =>
        LET a == gr_in[1]
            out == gr_out[1]
            ents == ThrownEntities(a.grenades, a.start_tick, a.end_tick)
        IN  /\ Len(out) = Cardinality(ents)
            /\ \A e \in ents :
                  \E i \in 1..Len(out) :
                      /\ out[i].thrower = ThrowerOf(a.grenades, e)
                      /\ out[i].tick = FirstValidTick(a.grenades, e, a.start_tick, a.end_tick)
            /\ \A i \in 1..Len(out) : \A j \in i..Len(out) : out[i].tick <= out[j].tick
            /\ ents = {} => out = <<>>

\* C7 witness: two entities gave one row each, one of them from its second
\* in-window record because its first had no position
C7_Witness ==
    /\ gr_out # None
    /\ Len(gr_out[1]) = 2
    /\ \E i, j \in 1..Len(gr_in[1].grenades) :
          LET g == gr_in[1].grenades
          IN  /\ g[i].entity_id = 1 /\ ~g[i].pos /\ g[i].tick > gr_in[1].start_tick
              /\ g[j].entity_id = 1 /\ g[j].pos /\ g[j].tick > g[i].tick
              /\ g[j].tick <= gr_in[1].end_tick
              /\ \E k \in 1..2 : gr_out[1][k].thrower = "ct1" /\ gr_out[1][k].tick = g[j].tick

\* the score deltas of the transitions into rounds that are no side switch
ScoreDeltas(rows_) ==
    LET tr == Transitions(rows_)
    IN  {<<tr[i].curr.ct_score - tr[i].prev.ct_score,
           tr[i].curr.t_score - tr[i].prev.t_score>> :
            i \in {j \in 1..Len(tr) : ~SwitchRound(tr[j].curr.round_number)}}

\* C8 as stated: score_progression passes only if every transition into a
\* round that is no side switch has one side gaining exactly one point and
\* the other side unchanged; any other pair of deltas fails the check and
\* adds an entry to errors.
C8_ExactlyOneSideGains ==
    (val_out # None /\ val_out[1].raised = "no") =>
        LET deltas == ScoreDeltas(val_in[1].rows)
            legal == deltas \subseteq {<<1, 0>>, <<0, 1>>}
            check == val_out[1].checks["score_progression"]
        IN  /\ check.passed => legal
            /\ ~legal => ~check.passed /\ val_out[1].errors # <<>>

\* C8 as amended: score_progression passes exactly if in every transition
\* into a round that is no side switch the two sides' deltas sum to 1; when it
\* fails it holds the offending transitions and adds one entry to errors.
C8_DeltaSumIsOne ==
    (val_out # None /\ val_out[1].raised = "no") =>
        LET deltas == ScoreDeltas(val_in[1].rows)
            legal == \A d \in deltas : d[1] + d[2] = 1
            check == val_out[1].checks["score_progression"]
            entries == {i \in 1..Len(val_out[1].errors) :
                           val_out[1].errors[i][1] = "Score progression issues"}
        IN  /\ check.passed <=> legal
            /\ check.passed => check.issues = <<>> /\ entries = {}
            /\ ~check.passed => check.issues # <<>> /\ Cardinality(entries) = 1

\* C8 witness: a table whose only transition has CT +2 and T -1 passed
C8_Witness ==
    /\ val_out # None
    /\ val_out[1].raised = "no"
    /\ ScoreDeltas(val_in[1].rows) = {<<2, -1>>}
    /\ val_out[1].checks["score_progression"].passed

\* C9: for every assembled table, a single-match table as the Match Driver
\* produces it or a concatenation with a match identifier column,
\* validate_features returns a report with a verdict for each of its checks
\* and the errors, warnings and summary fields; a failed check never keeps a
\* later one from being reported.
C9_FullReport ==
    val_out # None =>
        /\ val_out[1].raised = "no"
        /\ DOMAIN val_out[1].checks = {CheckOrder[i] : i \in 1..Len(CheckOrder)}
        /\ \A k \in DOMAIN val_out[1].checks : val_out[1].checks[k].passed \in BOOLEAN
        /\ {"errors", "warnings", "summary"} \subseteq DOMAIN val_out[1]

\* C10: if the decoder returns no entities for the round-start or the
\* snapshot tick of a round, parse_demo aborts: there is no feature row for
\* that round built from the empty data, no row for a later round and no
\* table returned.
C10_AbortOnEmptyFrame ==
    \A r \in 1..Len(rows) :
        /\ RoundFrames(demo, r).start # <<>>
        /\ RoundFrames(demo, r).snapshot # <<>>

\* the catalog price of an inventory item that belongs to one of the five
\* weapon categories, 0 for any other item
CategoryPrice(item) ==
    IF item \in RIFLES \cup SMGS \cup PISTOLS \cup SNIPERS \cup HEAVY
    THEN ITEM_PRICES[item]
    ELSE 0

\* the weapons a team holds, priced item by item
HeldWorth(team) ==
    SumSeq([i \in 1..Len(team) |->
               SumSeq([j \in 1..Len(team[i].inventory) |->
                          CategoryPrice(team[i].inventory[j])])])

\* held plus thrown grenades of a team, priced type by type
UtilityWorth(team, thrown) ==
    300 * (HeldOfType(team, {"Smoke Grenade"}) + RowsOfType(thrown, {"Smoke Grenade"}))
    + 200 * (HeldOfType(team, {"Flashbang"}) + RowsOfType(thrown, {"Flashbang"}))
    + 300 * (HeldOfType(team, {"High Explosive Grenade"})
             + RowsOfType(thrown, {"High Explosive Grenade"}))
    + 400 * (HeldOfType(team, {"Molotov"}) + RowsOfType(thrown, {"Molotov"}))
    + 500 * (HeldOfType(team, {"Incendiary Grenade"})
             + RowsOfType(thrown, {"Incendiary Grenade"}))
    + 50 * (HeldOfType(team, {"Decoy Grenade"}) + RowsOfType(thrown, {"Decoy Grenade"}))

\* C11: ct_equipment_value is armor count x 650 + helmet count x 350 +
\* defuser count x 400 + utility value + the held weapons of the five
\* categories at catalog price; t_equipment_value is the same without a
\* defuser term; utility value prices smoke 300, flash 200, HE 300, molotov
\* 400, incendiary 500, decoy 50, each counted held plus thrown; knives, C4,
\* Zeus and unknown items add 0.
C11_EquipmentValue ==
    ext_out # None =>
        LET a == ext_in[1]
            f == ext_out[1]
            ct == BySide(a.snapshot_data, "CT")
            t == BySide(a.snapshot_data, "T")
            ctg == ThrownBy(a.grenade_df, Names(ct))
            tg == ThrownBy(a.grenade_df, Names(t))
        IN  /\ f.ct_utility_value = UtilityWorth(ct, ctg)
            /\ f.t_utility_value = UtilityWorth(t, tg)
            /\ f.ct_equipment_value
                  = f.ct_armor_count * 650 + f.ct_helmet_count * 350
                    + f.ct_defuser_count * 400 + f.ct_utility_value + HeldWorth(ct)
            /\ f.t_equipment_value
                  = f.t_armor_count * 650 + f.t_helmet_count * 350
                    + f.t_utility_value + HeldWorth(t)

\* C11 witness: both sides hold weapons, armor and grenades, the T side has
\* a player with a defuser flag, a Zeus, the C4 and an unknown knife, and
\* grenades were thrown
C11_Witness ==
    /\ ext_out # None
    /\ ext_out[1].ct_defuser_count = 2
    /\ \E i \in 1..Len(ext_in[1].snapshot_data) :
          LET p == ext_in[1].snapshot_data[i]
          IN  /\ p.team_side = "T"
              /\ p.has_defuser
              /\ \E j \in 1..Len(p.inventory) : p.inventory[j] = "Golden Knife"
    /\ \E i \in 1..Len(ext_in[1].snapshot_data) :
          LET p == ext_in[1].snapshot_data[i]
          IN  \E j \in 1..Len(p.inventory) : p.inventory[j] = "Zeus x27"
    /\ ext_in[1].grenade_df # None
    /\ ext_in[1].grenade_df[1] # <<>>
    /\ ext_out[1].ct_equipment_value = 12400
    /\ ext_out[1].t_equipment_value = 9500

FloatOfInt(n) ==
    IF n = 0 THEN FloatZero
    ELSE LET sc == Scale(n, 1, 0)
         IN  [mh |-> sc[1], ml |-> 0, e |-> -(sc[2] + 26)]

\* x * k of a float by an integer 0 < k <= 8 in binary64, rounded to
\* nearest, ties to even
FloatTimes(x, k) ==
    IF x = FloatZero THEN FloatZero
    ELSE LET lo == k * x.ml
             l0 == lo % 2^26
             hi == k * x.mh + (lo \div 2^26)
             t == IF hi < 2^27 THEN 0 ELSE IF hi < 2^28 THEN 1
                  ELSE IF hi < 2^29 THEN 2 ELSE 3
             mh == hi \div 2^t
             ml == (hi % 2^t) * 2^(26 - t) + (l0 \div 2^t)
             d == l0 % 2^t
         IN  IF 2 * d > 2^t \/ (t > 0 /\ 2 * d = 2^t /\ ml % 2 = 1)
             THEN RoundUp(mh, ml, x.e + t)
             ELSE [mh |-> mh, ml |-> ml, e |-> x.e + t]

\* C13: for each side cash_avg * 5 = cash and equipment_value_avg * 5 =
\* equipment_value exactly; the divisor is the constant 5 however many
\* players of the side the snapshot holds, fewer than 5 and none included.
C13_AverageTimesFive ==
    ext_out # None =>
        LET f == ext_out[1]
        IN  /\ FloatTimes(f.ct_cash_avg, 5) = FloatOfInt(f.ct_cash)
            /\ FloatTimes(f.t_cash_avg, 5) = FloatOfInt(f.t_cash)
            /\ FloatTimes(f.ct_equipment_value_avg, 5) = FloatOfInt(f.ct_equipment_value)
            /\ FloatTimes(f.t_equipment_value_avg, 5) = FloatOfInt(f.t_equipment_value)
            /\ f.ct_cash_avg = TrueDiv(f.ct_cash, 5)
            /\ f.t_equipment_value_avg = TrueDiv(f.t_equipment_value, 5)

\* C13 witness: three CT players with a cash total that 5 does not divide
\* and whose fifth is not a binary fraction
C13_Witness ==
    /\ ext_out # None
    /\ Len(BySide(ext_in[1].snapshot_data, "CT")) = 3
    /\ ext_out[1].ct_cash = 21
    /\ ext_out[1].ct_cash_avg # FloatOfInt(4)
    /\ ext_out[1].ct_cash_avg # FloatOfInt(7)
    /\ FloatTimes(ext_out[1].ct_cash_avg, 5) = FloatOfInt(21)
    /\ ext_out[1].ct_equipment_value = 3 * 650 + 3 * 4800
    /\ ext_out[1].ct_equipment_value_avg = FloatOfInt(3270)

\* C14: for every input table each of score_progression, streak_resets,
\* equipment_resets, winner_consistency and pistol_round reports a list of at
\* most 5 offending-row descriptions, however many rows break the rule and
\* however many descriptions one row produces.
C14_AtMostFiveIssues ==
    (val_out # None /\ val_out[1].raised = "no") =>
        \A key \in {"score_progression", "streak_resets", "equipment_resets",
                     "winner_consistency", "pistol_round"} :
            Len(val_out[1].checks[key].issues) <= 5

\* C15: a round-1 row extracted from 5 players per side, each with
\* round-start balance 800 and equipment value 0 (money total 4000 per side),
\* with no AWP and no rifle on either side, passes the validator's
\* pistol_round check and adds no warning.
C15_PistolRoundAccepted ==
    (/\ ext_out # None
     /\ ext_in[1].round_number = 1
     /\ ext_in[1].start_tick_data = StartSquad(5, 5, 800, 0)
     /\ ext_out[1].ct_awp_count = 0 /\ ext_out[1].t_awp_count = 0
     /\ ext_out[1].ct_rifle_count = 0 /\ ext_out[1].t_rifle_count = 0)
    => LET out == pistol_round(Consolidated(<<ext_out[1]>>, 1).rows)
       IN  /\ ext_out[1].ct_money_total = 4000
           /\ ext_out[1].t_money_total = 4000
           /\ out.check.passed
           /\ out.warnings = <<>>

\* C16: in every row of a table the Match Driver produces, the CT won
\* streak equals the T lost streak, the CT lost streak equals the T won
\* streak, and for each side at most one of its won streak and lost streak
\* is non-zero.
C16_StreakSymmetry ==
    \A i \in 1..Len(rows) :
        /\ rows[i].ct_rounds_won_streak = rows[i].t_rounds_lost_streak
        /\ rows[i].ct_rounds_lost_streak = rows[i].t_rounds_won_streak
        /\ rows[i].ct_rounds_won_streak = 0 \/ rows[i].ct_rounds_lost_streak = 0
        /\ rows[i].t_rounds_won_streak = 0 \/ rows[i].t_rounds_lost_streak = 0

\* C16 witness: a table in which the winner changed from round to round,
\* past the first side switch
C16_Witness ==
    /\ Len(rows) >= 15
    /\ rows[3].round_winner # rows[2].round_winner
    /\ rows[4].ct_rounds_won_streak = 1
    /\ rows[4].t_rounds_lost_streak = 1
    /\ rows[5].t_rounds_won_streak = 1
    /\ rows[5].ct_rounds_lost_streak = 1
    /\ rows[6].t_rounds_won_streak = 2
    /\ rows[6].ct_rounds_lost_streak = 2
    /\ rows[14].ct_rounds_lost_streak = 1

\* the most recent side-switch round before round r, round 1 if there is none
LastSwitch(r) ==
    LET S == {1} \cup {k \in 1..(r - 1) : SwitchRound(k)}
    IN  CHOOSE k \in S : \A j \in S : j <= k

\* the length of the longest run of consecutive rounds ending at r - 1 that
\* the decoder declares won by side, counted back to LastSwitch(r) at most
WonRun(dem, side, r) ==
    Cardinality({k \in LastSwitch(r)..(r - 1) :
                    \A j \in k..(r - 1) : ScriptOf(dem, j).winner = side})

\* C17: with rounds numbered 1, 2, ... and processed in that order, the won
\* streak of a side in a round r > 1 that is no side switch is the length of
\* the longest run of consecutive rounds ending at r - 1 which that side won,
\* counted back no further than the most recent side-switch round before r
\* (round 1 if there is none), that round included; so no streak counter
\* exceeds 11 in rounds 1-24 or 2 in overtime.
C17_StreakIsRunLength ==
    \A r \in 1..Len(rows) :
        /\ rows[r].round_number = r
        /\ (r > 1 /\ ~SwitchRound(r)) =>
              /\ rows[r].ct_rounds_won_streak = WonRun(demo, "CT", r)
              /\ rows[r].t_rounds_won_streak = WonRun(demo, "T", r)
        /\ \A c \in {rows[r].ct_rounds_won_streak, rows[r].ct_rounds_lost_streak,
                      rows[r].t_rounds_won_streak, rows[r].t_rounds_lost_streak} :
              c <= (IF r <= 24 THEN 11 ELSE 2)

\* C17 witness: a match in which one side won every round, through both
\* halves and into overtime
C17_Witness ==
    /\ Len(rows) >= 27
    /\ rows[12].ct_rounds_won_streak = 11
    /\ rows[13].ct_rounds_won_streak = 0
    /\ rows[14].ct_rounds_won_streak = 1
    /\ rows[24].t_rounds_lost_streak = 11
    /\ rows[26].ct_rounds_won_streak = 1
    /\ rows[27].ct_rounds_won_streak = 2

\* a match in which a side's run of wins was broken and resumed
C17_BrokenRun ==
    /\ Len(rows) >= 7
    /\ rows[3].ct_rounds_won_streak = 0
    /\ rows[4].ct_rounds_won_streak = 1
    /\ rows[5].ct_rounds_won_streak = 2
    /\ rows[6].ct_rounds_won_streak = 0
    /\ rows[7].ct_rounds_won_streak = 1

\* the players of a team alive at the tick before the official end of round r
AliveAtEnd(dem, r, team) ==
    SelectSeq(parse_ticks(dem, OfficialEnd(r) - 1),
              LAMBDA p : p.team_name = team /\ p.is_alive)

\* C18: in every round after the first that is no side switch,
\* survivors_previous of a side is the number of its players alive at tick
\* official_end - 1 of the round processed just before, and
\* equipment_saved_value the sum of their current equipment value at that
\* tick; the streaks continue that round's RoundFeatures; no older round is
\* used (round 14 takes round 13's survivors and winner although round 13
\* was reset) and no later round is read.
C18_PreviousRoundOnly ==
    \A r \in 2..Len(rows) :
        ~SwitchRound(r) =>
            LET ct == AliveAtEnd(demo, r - 1, "CT")
                t == AliveAtEnd(demo, r - 1, "TERRORIST")
                streaks == StreakFeatures(FALSE, Some(rows[r - 1]))
            IN  /\ rows[r].ct_survivors_previous = Len(ct)
                /\ rows[r].t_survivors_previous = Len(t)
                /\ rows[r].ct_equipment_saved_value
                      = SumSeq([i \in 1..Len(ct) |-> ct[i].current_equip_value])
                /\ rows[r].t_equipment_saved_value
                      = SumSeq([i \in 1..Len(t) |-> t[i].current_equip_value])
                /\ \A c \in DOMAIN streaks : rows[r][c] = streaks[c]

\* C18 witness: round 14 was extracted with the two CT survivors of round
\* 13 and their equipment, after round 13 itself was reset, and round 2 with
\* those of round 1
C18_Witness ==
    /\ Len(rows) = 14
    /\ SavedZero(rows[13])
    /\ rows[14].ct_survivors_previous = 2
    /\ rows[14].t_survivors_previous = 0
    /\ rows[14].ct_equipment_saved_value = (5900 + 50 * 13) + (1700 + 50 * 13)
    /\ rows[2].ct_equipment_saved_value = (5900 + 50) + (1700 + 50)
    /\ rows[13].round_winner = 1
    /\ rows[14].ct_rounds_won_streak = 1

\* the names of the snapshot players whose side is side
SideNames(snapshot_data, side) ==
    {snapshot_data[i].name :
        i \in {j \in 1..Len(snapshot_data) : snapshot_data[j].team_side = side}}

\* the rows of a thrown table with a type in X and a thrower in names
ThrownRows(g, X, names) ==
    IF g = None THEN {}
    ELSE {i \in 1..Len(g[1]) : g[1][i].grenade_type \in X /\ g[1][i].thrower \in names}

\* the grenade types behind the four utility counts of a side
CountedTypes ==
    [smoke |-> {"Smoke Grenade"}, flash |-> {"Flashbang"},
     he |-> {"High Explosive Grenade"}, molo |-> {"Incendiary Grenade", "Molotov"}]

\* the utility counts of a side in a RoundFeatures record
UtilityCounts(f, side) ==
    IF side = "CT"
    THEN [smoke |-> f.ct_smoke_count, flash |-> f.ct_flash_count,
          he |-> f.ct_he_count, molo |-> f.ct_molo_count]
    ELSE [smoke |-> f.t_smoke_count, flash |-> f.t_flash_count,
          he |-> f.t_he_count, molo |-> f.t_molo_count]

\* what the thrown table added to the four utility counts of a side
ThrownShare(a, f, side) ==
    LET team == BySide(a.snapshot_data, side)
        counts == UtilityCounts(f, side)
    IN  [c \in DOMAIN CountedTypes |-> counts[c] - HeldOfType(team, CountedTypes[c])]

\* C19: a thrown row counts toward a side's utility counts and utility
\* value exactly if its thrower's name is in that side's name set at the
\* snapshot; a row whose thrower is on neither side counts for no side, and
\* with disjoint name sets no row counts for both, so the thrown
\* contributions of CT and T together do not exceed the rows of the table.
C19_ThrowerAccounting ==
    ext_out # None =>
        LET a == ext_in[1]
            f == ext_out[1]
            g == a.grenade_df
            names == [s \in {"CT", "T"} |-> SideNames(a.snapshot_data, s)]
            share == [s \in {"CT", "T"} |-> ThrownShare(a, f, s)]
            value == [s \in {"CT", "T"} |->
                         IF s = "CT" THEN f.ct_utility_value ELSE f.t_utility_value]
            total == [s \in {"CT", "T"} |->
                         share[s].smoke + share[s].flash + share[s].he + share[s].molo]
        IN  /\ \A s \in {"CT", "T"} :
                  /\ \A c \in DOMAIN CountedTypes :
                        share[s][c] = Cardinality(ThrownRows(g, CountedTypes[c], names[s]))
                  /\ value[s] = UtilityWorth(BySide(a.snapshot_data, s), None)
                                + 300 * Cardinality(ThrownRows(g, {"Smoke Grenade"}, names[s]))
                                + 200 * Cardinality(ThrownRows(g, {"Flashbang"}, names[s]))
                                + 300 * Cardinality(ThrownRows(g, {"High Explosive Grenade"},
                                                               names[s]))
                                + 400 * Cardinality(ThrownRows(g, {"Molotov"}, names[s]))
                                + 500 * Cardinality(ThrownRows(g, {"Incendiary Grenade"},
                                                               names[s]))
                                + 50 * Cardinality(ThrownRows(g, {"Decoy Grenade"}, names[s]))
            /\ (g # None /\ names["CT"] \cap names["T"] = {}) =>
                  total["CT"] + total["T"] <= Len(g[1])

\* C19 witness: a table with throws of both sides, of a thrower on neither
\* side and of a player without a side, extracted with disjoint name sets
C19_Witness ==
    /\ ext_out # None
    /\ ext_in[1].grenade_df # None
    /\ LET a == ext_in[1]
           g == a.grenade_df[1]
           ct == SideNames(a.snapshot_data, "CT")
           t == SideNames(a.snapshot_data, "T")
       IN  /\ ct # {} /\ t # {} /\ ct \cap t = {}
           /\ \E i \in 1..Len(g) : g[i].thrower = "ghost"
           /\ \E i \in 1..Len(g) : g[i].thrower = "coach"
           /\ ThrownShare(a, ext_out[1], "CT").flash = 1
           /\ ThrownShare(a, ext_out[1], "T").smoke = 2
           /\ ThrownShare(a, ext_out[1], "T").he = 0
           /\ ThrownShare(a, ext_out[1], "CT").smoke = 0

\* a thrower whose name is on both sides is counted for both
C19_SharedName ==
    /\ ext_out # None
    /\ ext_in[1].grenade_df # None
    /\ "ct1" \in SideNames(ext_in[1].snapshot_data, "CT")
                 \cap SideNames(ext_in[1].snapshot_data, "T")
    /\ ThrownShare(ext_in[1], ext_out[1], "CT").flash = 1
    /\ ThrownShare(ext_in[1], ext_out[1], "T").flash = 1

\* the six canonical grenade labels
CanonicalLabels ==
    {"Smoke Grenade", "Flashbang", "High Explosive Grenade", "Molotov",
     "Incendiary Grenade", "Decoy Grenade"}

\* C20: build_grenade_df gives every row one of the six canonical labels
\* when the raw label, less one leading C and one trailing Projectile, is
\* recognized, and otherwise the raw label as it was received, unchanged;
\* it does not fail.
C20_LabelNormalization ==
    gr_out # None =>
        \A i \in 1..Len(gr_out[1]) :
            \E j \in 1..Len(gr_in[1].grenades) :
                LET o == gr_out[1][i]
                    rec == gr_in[1].grenades[j]
                IN  /\ rec.tick = o.tick
                    /\ rec.thrower = o.thrower
                    /\ o.grenade_type \in CanonicalLabels
                       \/ o.grenade_type = rec.grenade_type

\* C21: whenever validate_features returns, each failed check has added
\* exactly one entry to exactly one of errors and warnings and each passed
\* check none, so summary.failed = summary.errors + summary.warnings,
\* summary.passed + summary.failed = summary.total_checks, and total_checks
\* is 9 for every input.
C21_SummaryCounts ==
    (val_out # None /\ val_out[1].raised = "no") =>
        LET report == val_out[1]
            keys == {CheckOrder[i] : i \in 1..Len(CheckOrder)}
            added == [k \in keys |->
                         Len(RunCheck(k, val_in[1].rows).errors)
                         + Len(RunCheck(k, val_in[1].rows).warnings)]
            failed == {k \in keys : ~report.checks[k].passed}
        IN  /\ DOMAIN report.checks = keys
            /\ \A k \in keys : added[k] = (IF k \in failed THEN 1 ELSE 0)
            /\ Len(report.errors) + Len(report.warnings) = Cardinality(failed)
            /\ report.summary.errors = Len(report.errors)
            /\ report.summary.warnings = Len(report.warnings)
            /\ report.summary.failed = report.summary.errors + report.summary.warnings
            /\ report.summary.passed + report.summary.failed = report.summary.total_checks
            /\ report.summary.total_checks = 9

\* C21 witness: a report with failed checks of both kinds, some recorded as
\* errors and some as warnings, next to passed ones
C21_Witness ==
    /\ val_out # None
    /\ val_out[1].raised = "no"
    /\ val_out[1].summary.failed >= 3
    /\ val_out[1].summary.errors >= 2
    /\ val_out[1].summary.warnings >= 1
    /\ ~val_out[1].checks["rifle_count"].passed
    /\ val_out[1].checks["streak_resets"].passed

\* a call wrote the whole response body to the path of match m and returned True
WroteComplete(c, m) ==
    /\ c.match_id = m
    /\ c.request
    /\ c.ret = "True"
    /\ c.after = Some(BodyChunks)

\* a file at an output path was written whole by a call that returned True
FilesAreComplete ==
    \A m \in Matches :
        files[get_match_info(m).filename] # None =>
            \E i \in 1..Len(downloads) : WroteComplete(downloads[i], m)

\* a call that returned False left no file at its path
ReturnedFalseLeavesNoFile ==
    \A i \in 1..Len(downloads) :
        downloads[i].ret = "False" => downloads[i].after = None

\* a call that found the file returned True without a request
SkipIssuesNoRequest ==
    \A i \in 1..Len(downloads) :
        downloads[i].before # None =>
            downloads[i].ret = "True" /\ ~downloads[i].request

\* the file a skipping call accepts is a whole response body
SkipAcceptsCompleteOnly ==
    \A i \in 1..Len(downloads) :
        downloads[i].before # None => downloads[i].before = Some(BodyChunks)

\* C22: after any sequence of download_demo calls for a match, a file is at
\* the match's output path only if some call wrote the complete response
\* body and returned True; a call that returns False leaves no file there,
\* so the skip of a later call never accepts a partially written file; and
\* a call that finds the file returns True without issuing a request.
C22_NoPartialFile ==
    downloads # <<>> =>
        /\ FilesAreComplete
        /\ ReturnedFalseLeavesNoFile
        /\ SkipAcceptsCompleteOnly
        /\ SkipIssuesNoRequest

====
